---- MODULE Spec2Model ----
(***************************************************************************)
(* The project scaffolding pipeline (scaffolding.ts): main, scaffoldProject *)
(* and the script graph generator, over a target directory tree.           *)
(*                                                                         *)
(* Paths are sequences of segments relative to their root (the target      *)
(* directory, or skills_dir for templates); <<>> is the root itself.       *)
(* File contents are sequences of text tokens; a placeholder such as       *)
(* {{PROJECT_NAME}} is one token.  A JSON manifest also carries its        *)
(* scripts table.  A shell command is the sequence of its words (the       *)
(* string is the words joined by one space).                               *)
(***************************************************************************)
EXTENDS Integers, Sequences, FiniteSets, Bags, TLC

VARIABLES
    rawConfig,        \* the parsed configuration document (main, rawConfig)
    skills,           \* the template tree under skills_dir: path -> content
    target,           \* the target directory tree: [dirs, files]
    pc,               \* position of the run
    created,          \* [dirs, files]: bags of the paths reported as created
    componentScripts, \* result of generateComponentScripts
    metaScripts,      \* result of generateMetaScripts
    result,           \* the ScaffoldingResult returned by scaffoldProject
    stderr,           \* lines written to standard error
    exitCode,         \* the process exit code, -1 while running
    args,             \* the parsed command line: [jsonOutput]
    stdout,           \* the JSON documents written to standard output
    before,           \* the target tree as the current run found it
    run,              \* number of the current run against this target
    written,          \* the file paths the current run has written
    populator,        \* the Domain Populator (domain-population.ts)
    hook,             \* the write-validation hook (validate-sdd-writes.sh)
    specTools         \* the spec scripts (validate-spec.ts, generate-index.ts)

vars == <<rawConfig, skills, target, pc, created, componentScripts,
          metaScripts, result, stderr, exitCode, args, stdout, before, run, written,
          populator, hook, specTools>>

\* what no step of a scaffolder run changes
fixed == <<args, before, run, populator, hook, specTools>>

-----------------------------------------------------------------------------
(* Bounds *)

MaxComponents == 2
MaxScriptComponents == 3
MaxRuns == 2
MaxEntities == 2

-----------------------------------------------------------------------------
(* Generic helpers *)

Range(s) == {s[i] : i \in DOMAIN s}

RECURSIVE Flatten(_)
Flatten(ss) == IF ss = <<>> THEN <<>> ELSE Head(ss) \o Flatten(Tail(ss))

Map(s, Op(_)) == [i \in DOMAIN s |-> Op(s[i])]

FlatMap(s, Op(_)) == Flatten(Map(s, Op))

SeqToBag(s) == [x \in Range(s) |-> Cardinality({i \in DOMAIN s : s[i] = x})]

SeqsUpTo(S, n) == UNION {[1..k -> S] : k \in 0..n}

Put(f, k, v) == [x \in DOMAIN f \cup {k} |-> IF x = k THEN v ELSE f[x]]

\* { ...a, ...b }
Spread(a, b) == [k \in DOMAIN a \cup DOMAIN b |-> IF k \in DOMAIN b THEN b[k] ELSE a[k]]

EmptyMap == [k \in {} |-> <<>>]

IsPrefix(p, q) == Len(p) <= Len(q) /\ SubSeq(q, 1, Len(p)) = p

Prefixes(p) == {SubSeq(p, 1, i) : i \in 0..Len(p)}

dirname(p) == SubSeq(p, 1, Len(p) - 1)

basename(p) == p[Len(p)]

-----------------------------------------------------------------------------
(* File contents *)

Text(tokens) == [text |-> tokens, scripts |-> EmptyMap]

Manifest(tokens, scripts) == [text |-> tokens, scripts |-> scripts]

PLACEHOLDERS ==
    {"{{PROJECT_NAME}}", "{{PROJECT_DESCRIPTION}}", "{{PRIMARY_DOMAIN}}", "{{CONTRACT_PACKAGE}}"}

SUBSTITUTABLE_EXTENSIONS ==
    {".md", ".json", ".yaml", ".yml", ".ts", ".tsx", ".html", ".css", ".js"}

\* path.extname over the file names that occur in the template tree
extname(name) ==
    CASE name \in {"README.md", "CLAUDE.md", "INDEX.md", "SNAPSHOT.md", "glossary.md"} -> ".md"
      [] name \in {"package.json", "schema.json"} -> ".json"
      [] name \in {"config.yaml", "openapi.yaml"} -> ".yaml"
      [] name \in {"index.ts"} -> ".ts"
      [] name \in {"index.html"} -> ".html"
      [] name \in {"setup.sh", "psql.sh"} -> ".sh"
      [] OTHER -> ""

-----------------------------------------------------------------------------
(* Components *)

Component(type, name) ==
    [type |-> type, name |-> name, has_depends_on |-> FALSE, depends_on |-> <<>>]

ComponentWithDeps(type, name, deps) ==
    [type |-> type, name |-> name, has_depends_on |-> TRUE, depends_on |-> deps]

\* the absent optional argument `component?`
NoComponent == Component("", "")

\* faulty variant: the type = name case is not told apart
componentDirNameAlwaysSuffixed(component) == component.type \o "-" \o component.name

\* faulty variant: the name is left out of the directory name
componentDirNameTypeOnly(component) == component.type

componentDirName(component) ==
    IF component.type = component.name
    THEN component.type
    ELSE component.type \o "-" \o component.name

getComponentsByType(components, componentType) ==
    SelectSeq(components, LAMBDA c : c.type = componentType)

-----------------------------------------------------------------------------
(* Template substitution *)

replaceAll(content, variable, value) ==
    [i \in DOMAIN content |-> IF content[i] = variable THEN value ELSE content[i]]

replacements(config, component) ==
    << <<"{{PROJECT_NAME}}", config.project_name>>,
       <<"{{PROJECT_DESCRIPTION}}", config.project_description>>,
       <<"{{PRIMARY_DOMAIN}}", config.primary_domain>> >>
    \o (IF component.has_depends_on
        THEN << <<"{{CONTRACT_PACKAGE}}",
                  "@" \o config.project_name \o "/"
                      \o (IF Len(component.depends_on) > 0
                          THEN component.depends_on[1] ELSE "")>> >>
        ELSE <<>>)

RECURSIVE reduceReplace(_, _)
reduceReplace(entries, content) ==
    IF entries = <<>> THEN content
    ELSE reduceReplace(Tail(entries), replaceAll(content, Head(entries)[1], Head(entries)[2]))

substituteVariables(content, config, component) ==
    reduceReplace(replacements(config, component), content)

SubstituteContent(content, config, component) ==
    [content EXCEPT !.text = substituteVariables(@, config, component)]

-----------------------------------------------------------------------------
(* Script graph generator *)

ScriptKey(name, suffix) == name \o ":" \o suffix

workspaceArg(config, component) ==
    <<"-w", "@" \o config.project_name \o "/" \o component.name>>

NpmRun(script, workspace) == <<"npm", "run", script>> \o workspace

\* an object literal { [`${name}:${suffix}`]: `npm run ${script} ${workspace}`, ... },
\* entries = sequence of <<suffix, script>>; a later duplicate key wins
RECURSIVE ScriptEntries(_, _, _)
ScriptEntries(name, entries, workspace) ==
    IF entries = <<>> THEN EmptyMap
    ELSE LET last == entries[Len(entries)]
         IN  Spread(ScriptEntries(name, SubSeq(entries, 1, Len(entries) - 1), workspace),
                    ScriptKey(name, last[1]) :> NpmRun(last[2], workspace))

contractScripts == << <<"generate", "generate:types">>, <<"validate", "validate">> >>

serverScripts ==
    << <<"dev", "dev">>, <<"build", "build">>, <<"start", "start">>, <<"test", "test">> >>

\* faulty variant: the webapp dev script runs another command than the server one
webappScriptsDevRunsStart ==
    << <<"dev", "start">>, <<"build", "build">>, <<"preview", "preview">>, <<"test", "test">> >>

webappScripts ==
    << <<"dev", "dev">>, <<"build", "build">>, <<"preview", "preview">>, <<"test", "test">> >>

\* faulty variant: the database component gets no psql script
databaseScriptsNoPsql ==
    << <<"setup", "setup">>, <<"teardown", "teardown">>, <<"migrate", "migrate">>,
       <<"seed", "seed">>, <<"reset", "reset">>, <<"port-forward", "port-forward">> >>

databaseScripts ==
    << <<"setup", "setup">>, <<"teardown", "teardown">>, <<"migrate", "migrate">>,
       <<"seed", "seed">>, <<"reset", "reset">>, <<"port-forward", "port-forward">>,
       <<"psql", "psql">> >>

initialComponentScripts ==
    [scripts |-> EmptyMap, contracts |-> <<>>, servers |-> <<>>, webapps |-> <<>>,
     databases |-> <<>>]

\* the reducer of generateComponentScripts: one component folded into acc
componentScriptsStep(acc, component, config) ==
    LET workspace == workspaceArg(config, component)
        name == component.name
    IN  CASE component.type = "contract" ->
               [acc EXCEPT !.contracts = Append(@, name),
                           !.scripts = Spread(@, ScriptEntries(name, contractScripts, workspace))]
          [] component.type = "server" ->
               [acc EXCEPT !.servers = Append(@, name),
                           !.scripts = Spread(@, ScriptEntries(name, serverScripts, workspace))]
          [] component.type = "webapp" ->
               [acc EXCEPT !.webapps = Append(@, name),
                           !.scripts = Spread(@, ScriptEntries(name, webappScripts, workspace))]
          [] component.type = "database" ->
               [acc EXCEPT !.databases = Append(@, name),
                           !.scripts = Spread(@, ScriptEntries(name, databaseScripts, workspace))]
          [] component.type = "helm" ->
               [acc EXCEPT !.scripts =
                    Spread(@, ScriptKey(name, "lint") :>
                              <<"helm", "lint", "components/" \o componentDirName(component)>>)]
          [] OTHER -> acc

RECURSIVE reduceComponents(_, _, _)
reduceComponents(components, acc, config) ==
    IF components = <<>> THEN acc
    ELSE reduceComponents(Tail(components), componentScriptsStep(acc, Head(components), config),
                          config)

generateComponentScripts(components, config) ==
    reduceComponents(components, initialComponentScripts, config)

\* names.map((c) => `${c}:${suffix}`)
WithSuffix(names, suffix) == [i \in DOMAIN names |-> ScriptKey(names[i], suffix)]

\* Object.fromEntries: a later entry with the same key wins
RECURSIVE fromEntries(_)
fromEntries(entries) ==
    IF entries = <<>> THEN EmptyMap
    ELSE LET last == entries[Len(entries)]
         IN  Spread(fromEntries(SubSeq(entries, 1, Len(entries) - 1)), last[1] :> last[2])

\* faulty variant: the entry is emitted without a server or webapp
parallelEntryUngated(script, contracts, servers, webapps) ==
    << <<script,
         IF Len(contracts) > 0
         THEN <<"npm-run-all", "generate", "--parallel">> \o WithSuffix(servers \o webapps, script)
         ELSE <<"npm-run-all", "--parallel">> \o WithSuffix(servers \o webapps, script)>> >>

\* faulty variant: generate is run inside the parallel fan-out
parallelEntryGenerateInParallel(script, contracts, servers, webapps) ==
    IF Len(servers \o webapps) > 0
    THEN << <<script,
              IF Len(contracts) > 0
              THEN <<"npm-run-all", "--parallel", "generate">> \o WithSuffix(servers \o webapps, script)
              ELSE <<"npm-run-all", "--parallel">> \o WithSuffix(servers \o webapps, script)>> >>
    ELSE <<>>

\* the dev, build and test entries of generateMetaScripts
parallelEntry(script, contracts, servers, webapps) ==
    IF Len(servers \o webapps) > 0
    THEN << <<script,
              IF Len(contracts) > 0
              THEN <<"npm-run-all", "generate", "--parallel">> \o WithSuffix(servers \o webapps, script)
              ELSE <<"npm-run-all", "--parallel">> \o WithSuffix(servers \o webapps, script)>> >>
    ELSE <<>>

generateEntry(contracts) ==
    IF Len(contracts) > 0
    THEN << <<"generate", <<"npm-run-all">> \o WithSuffix(contracts, "generate")>> >>
    ELSE <<>>

\* faulty variant: start runs name:start for webapps too
startEntryAllStart(servers, webapps) ==
    IF Len(servers) > 0 \/ Len(webapps) > 0
    THEN << <<"start", <<"npm-run-all", "--parallel">>
                       \o WithSuffix(servers, "start") \o WithSuffix(webapps, "start")>> >>
    ELSE <<>>

startEntry(servers, webapps) ==
    IF Len(servers) > 0 \/ Len(webapps) > 0
    THEN << <<"start", <<"npm-run-all", "--parallel">>
                       \o WithSuffix(servers, "start") \o WithSuffix(webapps, "preview")>> >>
    ELSE <<>>

generateMetaScripts(cs) ==
    IF Len(cs.contracts) = 0 /\ Len(cs.servers) = 0 /\ Len(cs.webapps) = 0
    THEN EmptyMap
    ELSE fromEntries(generateEntry(cs.contracts)
                     \o parallelEntry("dev", cs.contracts, cs.servers, cs.webapps)
                     \o parallelEntry("build", cs.contracts, cs.servers, cs.webapps)
                     \o parallelEntry("test", cs.contracts, cs.servers, cs.webapps)
                     \o startEntry(cs.servers, cs.webapps))

-----------------------------------------------------------------------------
(* The template tree under skills_dir *)

projectTemplates == <<"project-scaffolding", "templates">>
backendTemplates == <<"backend-scaffolding", "templates">>
frontendTemplates == <<"frontend-scaffolding", "templates">>
contractTemplates == <<"contract-scaffolding", "templates">>
databaseTemplates == <<"database-scaffolding", "templates">>

projectFilesDir == projectTemplates \o <<"project">>
specsFilesDir == projectTemplates \o <<"specs">>
configFilesDir == projectTemplates \o <<"config">>

\* a complete set of template bundles; the manifest template brings its own scripts
AllTemplates ==
    (projectFilesDir \o <<"README.md">>) :>
        Text(<<"#", "{{PROJECT_NAME}}", "{{PROJECT_DESCRIPTION}}">>)
    @@ (projectFilesDir \o <<"package.json">>) :>
        Manifest(<<"name", "{{PROJECT_NAME}}">>,
                 ("lint" :> <<"eslint", ".">>) @@ ("typecheck" :> <<"tsc", "--noEmit">>)
                 @@ ("dev" :> <<"echo", "todo">>))
    @@ (specsFilesDir \o <<"SNAPSHOT.md">>) :> Text(<<"snapshot", "{{PRIMARY_DOMAIN}}">>)
    @@ (specsFilesDir \o <<"glossary.md">>) :> Text(<<"glossary", "{{PRIMARY_DOMAIN}}">>)
    @@ (configFilesDir \o <<"config.yaml">>) :> Text(<<"app", "{{PROJECT_NAME}}">>)
    @@ (configFilesDir \o <<"schemas", "schema.json">>) :> Text(<<"schema">>)
    @@ (contractTemplates \o <<"package.json">>) :>
        Manifest(<<"name", "{{PROJECT_NAME}}", "contract">>, EmptyMap)
    @@ (contractTemplates \o <<"openapi.yaml">>) :> Text(<<"title", "{{PROJECT_NAME}}">>)
    @@ (backendTemplates \o <<"package.json">>) :>
        Manifest(<<"name", "{{PROJECT_NAME}}", "dependencies", "{{CONTRACT_PACKAGE}}">>, EmptyMap)
    @@ (backendTemplates \o <<"src", "index.ts">>) :>
        Text(<<"import", "{{CONTRACT_PACKAGE}}">>)
    @@ (frontendTemplates \o <<"package.json">>) :>
        Manifest(<<"name", "{{PROJECT_NAME}}", "dependencies", "{{CONTRACT_PACKAGE}}">>, EmptyMap)
    @@ (frontendTemplates \o <<"index.html">>) :> Text(<<"title", "{{PROJECT_NAME}}">>)
    @@ (databaseTemplates \o <<"package.json">>) :>
        Manifest(<<"name", "{{PROJECT_NAME}}", "{{CONTRACT_PACKAGE}}">>, EmptyMap)
    @@ (databaseTemplates \o <<"scripts", "setup.sh">>) :>
        Text(<<"createdb", "{{PROJECT_NAME}}">>)
    @@ (databaseTemplates \o <<"scripts", "psql.sh">>) :>
        Text(<<"PGDATABASE", "{{PROJECT_NAME}}">>)

\* a template tree without the files below dir
Without(tree, dir) == [f \in {g \in DOMAIN tree : ~IsPrefix(dir, g)} |-> tree[f]]

\* directoryExists / fs.existsSync on the template tree
directoryExists(tree, dir) == \E f \in DOMAIN tree : IsPrefix(dir, f) /\ f # dir

existsSync(tree, file) == file \in DOMAIN tree

\* walkDir: all regular files below dir, as paths relative to dir
walkDir(tree, dir) == {SubSeq(f, Len(dir) + 1, Len(f)) : f \in {g \in DOMAIN tree : IsPrefix(dir, g)}}

-----------------------------------------------------------------------------
(* The target directory tree *)

FreshTarget == [dirs |-> {}, files |-> EmptyMap]

\* a target that already holds a project manifest with scripts of its own
ExistingTarget ==
    [dirs |-> {<<>>},
     files |-> (<<"package.json">> :>
                  Manifest(<<"name", "legacy">>,
                           ("lint" :> <<"eslint", ".">>)
                           @@ ("server:dev" :> <<"node", "old.js">>)))]

\* fsp.mkdir(path, { recursive: true })
mkdir(t, path) == [t EXCEPT !.dirs = @ \cup Prefixes(path)]

\* fsp.writeFile(path, content) succeeds only below an existing directory
canWrite(t, path) == dirname(path) \in t.dirs

\* faulty variant: an existing file is appended to instead of replaced
writeFileAppending(t, path, content) ==
    [t EXCEPT !.files =
        Put(t.files, path,
            IF path \in DOMAIN t.files
            THEN [content EXCEPT !.text = t.files[path].text \o content.text]
            ELSE content)]

writeFile(t, path, content) == [t EXCEPT !.files = Put(@, path, content)]

RECURSIVE mkdirAll(_, _)
mkdirAll(t, paths) ==
    IF paths = <<>> THEN t ELSE mkdirAll(mkdir(t, Head(paths)), Tail(paths))

\* a batch of writes: sequence of [path, content]
RECURSIVE writeAll(_, _)
writeAll(t, writes) ==
    IF writes = <<>> THEN t
    ELSE writeAll(writeFile(t, Head(writes).path, Head(writes).content), Tail(writes))

\* the files a batch of copies and a batch of writes set
filesSet(copies, writes) ==
    {copies[i].dest : i \in DOMAIN copies} \cup {writes[i].path : i \in DOMAIN writes}

canWriteAll(t, writes) == \A i \in DOMAIN writes : canWrite(t, writes[i].path)

\* the content copyTemplateFile writes for src
copiedContent(tree, src, config, component) ==
    IF extname(basename(src)) \in SUBSTITUTABLE_EXTENSIONS
    THEN SubstituteContent(tree[src], config, component)
    ELSE tree[src]

copyTemplateFile(t, tree, src, dest, config, component) ==
    writeFile(mkdir(t, dirname(dest)), dest, copiedContent(tree, src, config, component))

\* a batch of copies: sequence of [src, dest, component]
RECURSIVE copyAll(_, _, _, _)
copyAll(t, tree, copies, config) ==
    IF copies = <<>> THEN t
    ELSE copyAll(copyTemplateFile(t, tree, Head(copies).src, Head(copies).dest, config,
                                  Head(copies).component),
                 tree, Tail(copies), config)

\* some enumeration of a finite set (readdir order is unspecified)
RECURSIVE SetToSeq(_)
SetToSeq(S) == IF S = {} THEN <<>> ELSE LET x == CHOOSE y \in S : TRUE IN <<x>> \o SetToSeq(S \ {x})

\* the copies copyTemplateDir issues for one destination directory
copyTemplateDir(tree, templatesDir, destDir, component) ==
    IF ~directoryExists(tree, templatesDir) THEN <<>>
    ELSE LET rels == SetToSeq(walkDir(tree, templatesDir))
         IN  [i \in DOMAIN rels |->
                [src |-> templatesDir \o rels[i], dest |-> destDir \o rels[i],
                 component |-> component]]

-----------------------------------------------------------------------------
(* Configuration *)

ConfigFields ==
    {"project_name", "project_description", "primary_domain", "target_dir", "components",
     "skills_dir", "template_dir"}

required == <<"project_name", "target_dir", "components">>

\* the components a scaffolder run is tried with
ComponentPool ==
    { Component("contract", "contract"),
      ComponentWithDeps("server", "server", <<"contract">>),
      Component("server", "api"),
      ComponentWithDeps("webapp", "webapp", <<>>),
      ComponentWithDeps("database", "database", <<"contract">>),
      Component("helm", "helm"),
      Component("helm", "chart"),
      Component("testing", "testing"),
      Component("cicd", "cicd"),
      Component("cicd", "deploy") }

RawConfig(present, components) ==
    [present |-> present, project_name |-> "acme", project_description |-> "Acme shop",
     primary_domain |-> "Retail", components |-> components]

\* skillsDir of main: skills_dir, else derived from the legacy template_dir
skillsDirResolved(raw) == "skills_dir" \in raw.present \/ "template_dir" \in raw.present

\* faulty variant: an unresolvable skills_dir is not reported
missingFieldsRequiredOnly(raw) == SelectSeq(required, LAMBDA field : field \notin raw.present)

missingFields(raw) ==
    SelectSeq(required, LAMBDA field : field \notin raw.present)
    \o (IF skillsDirResolved(raw) THEN <<>> ELSE <<"skills_dir">>)

\* the Config main builds, with its defaults
Config(raw) ==
    [project_name |-> raw.project_name,
     project_description |->
        IF "project_description" \in raw.present THEN raw.project_description
        ELSE "A " \o raw.project_name \o " project",
     primary_domain |->
        IF "primary_domain" \in raw.present THEN raw.primary_domain ELSE "General",
     components |-> raw.components]

config == Config(rawConfig)

components == config.components

-----------------------------------------------------------------------------
(* Directory layout by component type *)

componentDir(c) == <<"components", componentDirName(c)>>

specsDirs ==
    << <<"specs">>, <<"specs", "domain">>, <<"specs", "domain", "definitions">>,
       <<"specs", "domain", "use-cases">>, <<"specs", "architecture">> >>

rootDirs == << <<"changes">>, <<"archive">> >>

emptyDirs ==
    << <<"specs", "domain", "definitions">>, <<"specs", "domain", "use-cases">>,
       <<"specs", "architecture">>, <<"changes">>, <<"archive">> >>

configDirs == << <<"config">>, <<"config", "schemas">> >>

contractDirsOf(c) == << componentDir(c) >>

serverDirsOf(c) ==
    << componentDir(c) \o <<"src", "operator">>,
       componentDir(c) \o <<"src", "config">>,
       componentDir(c) \o <<"src", "controller", "http_handlers">>,
       componentDir(c) \o <<"src", "model", "definitions">>,
       componentDir(c) \o <<"src", "model", "use-cases">>,
       componentDir(c) \o <<"src", "dal">> >>

webappDirsOf(c) ==
    << componentDir(c) \o <<"src", "pages">>,
       componentDir(c) \o <<"src", "components">>,
       componentDir(c) \o <<"src", "viewmodels">>,
       componentDir(c) \o <<"src", "models">>,
       componentDir(c) \o <<"src", "services">>,
       componentDir(c) \o <<"src", "stores">>,
       componentDir(c) \o <<"src", "types">>,
       componentDir(c) \o <<"src", "utils">> >>

helmDirsOf(c) == << componentDir(c) >>

testingDirsOf(c) ==
    << componentDir(c) \o <<"tests", "integration">>,
       componentDir(c) \o <<"tests", "component">>,
       componentDir(c) \o <<"tests", "e2e">>,
       componentDir(c) \o <<"testsuites">> >>

cicdDirsOf(c) == << componentDir(c), <<".github", "workflows">> >>

databaseDirsOf(c) ==
    << componentDir(c),
       componentDir(c) \o <<"migrations">>,
       componentDir(c) \o <<"seeds">>,
       componentDir(c) \o <<"scripts">> >>

\* the directory list scaffoldProject builds for one component type
componentDirs(componentType) ==
    LET cs == getComponentsByType(components, componentType)
    IN  CASE componentType = "contract" -> FlatMap(cs, contractDirsOf)
          [] componentType = "server" -> FlatMap(cs, serverDirsOf)
          [] componentType = "webapp" -> FlatMap(cs, webappDirsOf)
          [] componentType = "helm" -> FlatMap(cs, helmDirsOf)
          [] componentType = "testing" -> FlatMap(cs, testingDirsOf)
          [] componentType = "cicd" -> FlatMap(cs, cicdDirsOf)
          [] componentType = "database" -> FlatMap(cs, databaseDirsOf)
          [] OTHER -> <<>>

-----------------------------------------------------------------------------
(* Fixed file contents and the copy lists of Step 3 *)

gitignoreContent == Text(<<"node_modules/", ".env", ".DS_Store", "dist/", "*.log">>)

gitkeepContent == Text(<<"# This file ensures the directory is tracked by git">>)

claudeignoreContent == Text(<<"archive/">>)

contractGitignoreContent == Text(<<"node_modules/", "generated/">>)

ciContent == Text(<<"name: CI", "npm run typecheck", "npm run lint", "npm run test",
                    "npm run build">>)

typeDescriptions(type) ==
    CASE type = "contract" -> "OpenAPI specifications and type generation"
      [] type = "server" -> "Node.js/TypeScript backend with CMDO architecture"
      [] type = "webapp" -> "React/TypeScript frontend with MVVM pattern"
      [] type = "database" -> "PostgreSQL migrations, seeds, and management scripts"
      [] type = "helm" -> "Kubernetes deployment charts"
      [] type = "testing" -> "Testkube test definitions"
      [] type = "cicd" -> "CI/CD workflow definitions"
      [] OTHER -> type

\* name.charAt(0).toUpperCase() + name.slice(1), over the names of ComponentPool
displayName(name) ==
    CASE name = "contract" -> "Contract"
      [] name = "server" -> "Server"
      [] name = "api" -> "Api"
      [] name = "webapp" -> "Webapp"
      [] name = "database" -> "Database"
      [] name = "helm" -> "Helm"
      [] name = "chart" -> "Chart"
      [] name = "testing" -> "Testing"
      [] name = "cicd" -> "Cicd"
      [] name = "deploy" -> "Deploy"
      [] OTHER -> name

\* one line of the overview: display name, directory, description
componentLine(c) ==
    <<displayName(c.name), "components/" \o componentDirName(c) \o "/", typeDescriptions(c.type)>>

archContent ==
    Text(<<"# Architecture Overview", config.project_name, "config/">>
         \o FlatMap(components, componentLine))

archOverview == <<"specs", "architecture", "overview.md">>

Copy(src, dest, component) == [src |-> src, dest |-> dest, component |-> component]

Write(path, content) == [path |-> path, content |-> content]

\* faulty variant: the first file of a batch is copied but not returned
destsWithoutFirst(copies) ==
    IF copies = <<>> THEN <<>> ELSE Tail([i \in DOMAIN copies |-> copies[i].dest])

dests(copies) == [i \in DOMAIN copies |-> copies[i].dest]

paths(writes) == [i \in DOMAIN writes |-> writes[i].path]

\* [names].filter(existsSync).map(copy) below srcDir, guarded by directoryExists(srcDir)
listedCopies(srcDir, entries) ==
    IF ~directoryExists(skills, srcDir) THEN <<>>
    ELSE LET present == SelectSeq(entries, LAMBDA e : existsSync(skills, srcDir \o e[1]))
         IN  [i \in DOMAIN present |->
                Copy(srcDir \o present[i][1], present[i][2], NoComponent)]

projectCopies ==
    listedCopies(projectFilesDir,
                 << << <<"README.md">>, <<"README.md">> >>,
                    << <<"CLAUDE.md">>, <<"CLAUDE.md">> >>,
                    << <<"package.json">>, <<"package.json">> >> >>)

specCopies ==
    listedCopies(specsFilesDir,
                 << << <<"INDEX.md">>, <<"specs", "INDEX.md">> >>,
                    << <<"SNAPSHOT.md">>, <<"specs", "SNAPSHOT.md">> >>,
                    << <<"glossary.md">>, <<"specs", "domain", "glossary.md">> >> >>)

configFilesList ==
    << <<"config.yaml">>, <<"config-local.yaml">>, <<"config-testing.yaml">>,
       <<"config-production.yaml">>, <<"schemas", "schema.json">>,
       <<"schemas", "ops-schema.json">>, <<"schemas", "app-schema.json">> >>

configCopies ==
    listedCopies(configFilesDir,
                 [i \in DOMAIN configFilesList |->
                    <<configFilesList[i], <<"config">> \o configFilesList[i]>>])

contractCopiesOf(c) ==
    LET present == SelectSeq(<<"package.json", "openapi.yaml">>,
                             LAMBDA f : existsSync(skills, contractTemplates \o <<f>>))
    IN  [i \in DOMAIN present |->
           Copy(contractTemplates \o <<present[i]>>, componentDir(c) \o <<present[i]>>, c)]

contractCopies ==
    IF directoryExists(skills, contractTemplates)
    THEN FlatMap(getComponentsByType(components, "contract"), contractCopiesOf)
    ELSE <<>>

contractGitignoreOf(c) == <<Write(componentDir(c) \o <<".gitignore">>, contractGitignoreContent)>>

contractGitignores ==
    IF directoryExists(skills, contractTemplates)
    THEN FlatMap(getComponentsByType(components, "contract"), contractGitignoreOf)
    ELSE <<>>

serverCopiesOf(c) == copyTemplateDir(skills, backendTemplates, componentDir(c), c)

serverCopies ==
    IF directoryExists(skills, backendTemplates)
    THEN FlatMap(getComponentsByType(components, "server"), serverCopiesOf)
    ELSE <<>>

webappCopiesOf(c) == copyTemplateDir(skills, frontendTemplates, componentDir(c), c)

webappCopies ==
    IF directoryExists(skills, frontendTemplates)
    THEN FlatMap(getComponentsByType(components, "webapp"), webappCopiesOf)
    ELSE <<>>

\* the database bundle is copied without the component argument
databaseCopiesOf(c) == copyTemplateDir(skills, databaseTemplates, componentDir(c), NoComponent)

databaseCopies ==
    IF directoryExists(skills, databaseTemplates)
    THEN FlatMap(getComponentsByType(components, "database"), databaseCopiesOf)
    ELSE <<>>

cicdWritesOf(c) ==
    << Write(componentDir(c) \o <<"ci.yaml">>, ciContent),
       Write(<<".github", "workflows", "ci.yaml">>, ciContent) >>

cicdWrites == FlatMap(getComponentsByType(components, "cicd"), cicdWritesOf)

gitkeepWrites == [i \in DOMAIN emptyDirs |-> Write(emptyDirs[i] \o <<".gitkeep">>, gitkeepContent)]

pkgPath == <<"package.json">>

-----------------------------------------------------------------------------
(* Initial states *)

Envs ==
    { [skills |-> AllTemplates, target |-> FreshTarget],
      [skills |-> Without(AllTemplates, projectFilesDir), target |-> FreshTarget],
      [skills |-> Without(AllTemplates, projectFilesDir), target |-> ExistingTarget],
      [skills |-> Without(Without(AllTemplates, backendTemplates), databaseTemplates),
       target |-> FreshTarget] }

RawConfigs ==
    {RawConfig(ConfigFields, cs) : cs \in SeqsUpTo(ComponentPool, MaxComponents)}
    \cup {RawConfig(present, <<Component("server", "server")>>) : present \in SUBSET ConfigFields}

\* the other programs of the plugin, not running
NoPopulator == [pc |-> "idle"]

NoHook == [pc |-> "idle"]

NoSpecTools == [pc |-> "idle"]

\* main's catch block: the error document of --json-output
ErrorJson(message) == [success |-> FALSE, error |-> message]

printJson(out, jsonOutput, document) == IF jsonOutput THEN Append(out, document) ELSE out

NoResult == [success |-> FALSE, created_dirs |-> 0, created_files |-> 0, files |-> EmptyBag]

NothingCreated == [dirs |-> EmptyBag, files |-> EmptyBag]

Init ==
    /\ rawConfig \in RawConfigs
    /\ \E env \in Envs : skills = env.skills /\ target = env.target
    /\ pc = "main"
    /\ created = NothingCreated
    /\ componentScripts = initialComponentScripts
    /\ metaScripts = EmptyMap
    /\ result = NoResult
    /\ stderr = <<>>
    /\ exitCode = -1
    /\ args \in [jsonOutput : BOOLEAN]
    /\ stdout = <<>>
    /\ before = target
    /\ run = 1
    /\ written = {}
    /\ populator = NoPopulator
    /\ hook = NoHook
    /\ specTools = NoSpecTools

-----------------------------------------------------------------------------
(* main: validation *)

Main ==
    /\ pc = "main"
    /\ IF missingFields(rawConfig) # <<>>
       THEN /\ stderr' = Append(stderr, <<"Error: Missing required config fields:">>
                                        \o missingFields(rawConfig))
            /\ exitCode' = 1
            /\ pc' = "exit"
       ELSE /\ pc' = "mkdirTarget"
            /\ UNCHANGED <<stderr, exitCode>>
    /\ UNCHANGED <<rawConfig, skills, target, created, componentScripts, metaScripts, result,
                   stdout, written, fixed>>

-----------------------------------------------------------------------------
(* scaffoldProject, one action per awaited step *)

\* await createDirectories(dirs, target, config)
CreateDirectories(from, to, dirs) ==
    /\ pc = from
    /\ pc' = to
    /\ target' = mkdirAll(target, dirs)
    /\ created' = [created EXCEPT !.dirs = @ (+) SeqToBag(dirs)]
    /\ UNCHANGED <<rawConfig, skills, componentScripts, metaScripts, result, stderr, exitCode,
                   stdout, written, fixed>>

\* await of fsp.writeFile calls; a rejected write is caught by main
WriteFiles(from, to, writes) ==
    /\ pc = from
    /\ IF canWriteAll(target, writes)
       THEN /\ target' = writeAll(target, writes)
            /\ created' = [created EXCEPT !.files = @ (+) SeqToBag(paths(writes))]
            /\ written' = written \cup filesSet(<<>>, writes)
            /\ pc' = to
            /\ UNCHANGED <<stderr, exitCode, stdout>>
       ELSE LET done == SelectSeq(writes, LAMBDA w : canWrite(target, w.path))
            IN  /\ target' = writeAll(target, done)
                /\ written' = written \cup filesSet(<<>>, done)
                /\ stderr' = Append(stderr, <<"Error: ENOENT">>)
                /\ stdout' = printJson(stdout, args.jsonOutput, ErrorJson("ENOENT"))
                /\ exitCode' = 1
                /\ pc' = "exit"
                /\ UNCHANGED created
    /\ UNCHANGED <<rawConfig, skills, componentScripts, metaScripts, result, fixed>>

\* await Promise.all of copyTemplateFile calls, followed by plain writes
CopyFiles(from, to, copies, writes) ==
    /\ pc = from
    /\ pc' = to
    /\ target' = writeAll(copyAll(target, skills, copies, config), writes)
    /\ created' = [created EXCEPT !.files = @ (+) SeqToBag(dests(copies) \o paths(writes))]
    /\ written' = written \cup filesSet(copies, writes)
    /\ UNCHANGED <<rawConfig, skills, componentScripts, metaScripts, result, stderr, exitCode,
                   stdout, fixed>>

MkdirTarget ==
    /\ pc = "mkdirTarget"
    /\ pc' = "gitignore"
    /\ target' = mkdir(target, <<>>)
    /\ UNCHANGED <<rawConfig, skills, created, componentScripts, metaScripts, result, stderr,
                   exitCode, stdout, written, fixed>>

WriteGitignore == WriteFiles("gitignore", "specsDirs", <<Write(<<".gitignore">>, gitignoreContent)>>)

CreateSpecsDirs == CreateDirectories("specsDirs", "rootDirs", specsDirs)

CreateRootDirs == CreateDirectories("rootDirs", "gitkeep", rootDirs)

WriteGitkeeps == WriteFiles("gitkeep", "claudeignore", gitkeepWrites)

WriteClaudeignore ==
    WriteFiles("claudeignore", "configDirs", <<Write(<<".claudeignore">>, claudeignoreContent)>>)

CreateConfigDirs == CreateDirectories("configDirs", "contractDirs", configDirs)

CreateContractDirs == CreateDirectories("contractDirs", "serverDirs", componentDirs("contract"))

CreateServerDirs == CreateDirectories("serverDirs", "webappDirs", componentDirs("server"))

CreateWebappDirs == CreateDirectories("webappDirs", "helmDirs", componentDirs("webapp"))

CreateHelmDirs == CreateDirectories("helmDirs", "testingDirs", componentDirs("helm"))

CreateTestingDirs == CreateDirectories("testingDirs", "cicdDirs", componentDirs("testing"))

CreateCicdDirs == CreateDirectories("cicdDirs", "databaseDirs", componentDirs("cicd"))

\* faulty variant: Step 2 ends without the database directories
CreateDatabaseDirsSkipped == CreateDirectories("databaseDirs", "projectFiles", <<>>)

CreateDatabaseDirs == CreateDirectories("databaseDirs", "projectFiles", componentDirs("database"))

CopyProjectFiles == CopyFiles("projectFiles", "specFiles", projectCopies, <<>>)

CopySpecFiles == CopyFiles("specFiles", "archOverview", specCopies, <<>>)

WriteArchOverview == WriteFiles("archOverview", "configFiles", <<Write(archOverview, archContent)>>)

CopyConfigFiles == CopyFiles("configFiles", "contractFiles", configCopies, <<>>)

CopyContractFiles == CopyFiles("contractFiles", "serverFiles", contractCopies, contractGitignores)

\* faulty variant: the webapp bundles are copied at the server step
CopyWebappFilesFirst == CopyFiles("serverFiles", "webappFiles", webappCopies, <<>>)

CopyServerFiles == CopyFiles("serverFiles", "webappFiles", serverCopies, <<>>)

CopyWebappFiles == CopyFiles("webappFiles", "databaseFiles", webappCopies, <<>>)

CopyDatabaseFiles == CopyFiles("databaseFiles", "cicdFiles", databaseCopies, <<>>)

WriteCicdFiles == WriteFiles("cicdFiles", "npmScripts", cicdWrites)

\* the scripts table Step 4 assigns to pkg.scripts
mergedScripts(pkg, cs, meta) == Spread(cs.scripts, meta)

\* Step 4: read the manifest, generate the scripts, write the manifest back
GenerateNpmScripts ==
    /\ pc = "npmScripts"
    /\ IF pkgPath \in DOMAIN target.files
       THEN LET pkg == target.files[pkgPath]
                cs == generateComponentScripts(components, config)
                meta == generateMetaScripts(cs)
            IN  /\ componentScripts' = cs
                /\ metaScripts' = meta
                /\ target' = writeFile(target, pkgPath,
                                       [pkg EXCEPT !.scripts = mergedScripts(pkg, cs, meta)])
                /\ written' = written \cup {pkgPath}
                /\ pc' = "summary"
                /\ UNCHANGED <<stderr, exitCode, stdout>>
       ELSE /\ stderr' = Append(stderr, <<"Error: ENOENT: no such file or directory, open",
                                          "package.json">>)
            /\ stdout' = printJson(stdout, args.jsonOutput,
                                   ErrorJson("ENOENT: no such file or directory, open"))
            /\ exitCode' = 1
            /\ pc' = "exit"
            /\ UNCHANGED <<componentScripts, metaScripts, target, written>>
    /\ UNCHANGED <<rawConfig, skills, created, result, fixed>>

\* the returned ScaffoldingResult
Summary ==
    /\ pc = "summary"
    /\ pc' = "returned"
    /\ result' = [success |-> TRUE,
                  created_dirs |-> BagCardinality(created.dirs),
                  created_files |-> BagCardinality(created.files),
                  files |-> created.files]
    /\ UNCHANGED <<rawConfig, skills, target, created, componentScripts, metaScripts, stderr,
                   exitCode, stdout, written, fixed>>

\* the result printed under --json-output; return result.success ? 0 : 1, then process.exit
Exit ==
    /\ pc = "returned"
    /\ pc' = "exit"
    /\ stdout' = printJson(stdout, args.jsonOutput, result)
    /\ exitCode' = IF result.success THEN 0 ELSE 1
    /\ UNCHANGED <<rawConfig, skills, target, created, componentScripts, metaScripts, result,
                   stderr, written, fixed>>

Next ==
    \/ Main
    \/ MkdirTarget
    \/ WriteGitignore
    \/ CreateSpecsDirs
    \/ CreateRootDirs
    \/ WriteGitkeeps
    \/ WriteClaudeignore
    \/ CreateConfigDirs
    \/ CreateContractDirs
    \/ CreateServerDirs
    \/ CreateWebappDirs
    \/ CreateHelmDirs
    \/ CreateTestingDirs
    \/ CreateCicdDirs
    \/ CreateDatabaseDirs
    \/ CopyProjectFiles
    \/ CopySpecFiles
    \/ WriteArchOverview
    \/ CopyConfigFiles
    \/ CopyContractFiles
    \/ CopyServerFiles
    \/ CopyWebappFiles
    \/ CopyDatabaseFiles
    \/ WriteCicdFiles
    \/ GenerateNpmScripts
    \/ Summary
    \/ Exit

Spec == Init /\ [][Next]_vars

-----------------------------------------------------------------------------
(* A scaffolder run in which a filesystem operation can fail *)

\* the steps of scaffoldProject that call the filesystem
RunningSteps ==
    {"mkdirTarget", "gitignore", "specsDirs", "rootDirs", "gitkeep", "claudeignore",
     "configDirs", "contractDirs", "serverDirs", "webappDirs", "helmDirs", "testingDirs",
     "cicdDirs", "databaseDirs", "projectFiles", "specFiles", "archOverview", "configFiles",
     "contractFiles", "serverFiles", "webappFiles", "databaseFiles", "cicdFiles", "npmScripts"}

\* faulty variant: the catch block removes what the run wrote
IoFailureRollingBack ==
    /\ pc \in RunningSteps
    /\ pc' = "exit"
    /\ target' = before
    /\ written' = {}
    /\ stderr' = Append(stderr, <<"Error: EACCES">>)
    /\ stdout' = printJson(stdout, args.jsonOutput, ErrorJson("EACCES"))
    /\ exitCode' = 1
    /\ UNCHANGED <<rawConfig, skills, created, componentScripts, metaScripts, result, fixed>>

\* the first filesystem call of a step rejects (permission denied, disk full):
\* the rejection leaves scaffoldProject and reaches the catch block of main
IoFailure ==
    /\ pc \in RunningSteps
    /\ pc' = "exit"
    /\ stderr' = Append(stderr, <<"Error: EACCES">>)
    /\ stdout' = printJson(stdout, args.jsonOutput, ErrorJson("EACCES"))
    /\ exitCode' = 1
    /\ UNCHANGED <<rawConfig, skills, target, created, componentScripts, metaScripts, result,
                   written, fixed>>

FaultInit == Init /\ target = FreshTarget /\ directoryExists(skills, backendTemplates)

FaultNext == Next \/ IoFailure

FaultSpec == FaultInit /\ [][FaultNext]_vars

-----------------------------------------------------------------------------
(* The scaffolder run again on the tree the previous run left *)

\* a new process with the same command line, configuration and skills_dir
Rerun ==
    /\ pc = "exit"
    /\ run < MaxRuns
    /\ pc' = "main"
    /\ run' = run + 1
    /\ before' = target
    /\ created' = NothingCreated
    /\ componentScripts' = initialComponentScripts
    /\ metaScripts' = EmptyMap
    /\ result' = NoResult
    /\ stderr' = <<>>
    /\ stdout' = <<>>
    /\ exitCode' = -1
    /\ written' = {}
    /\ UNCHANGED <<rawConfig, skills, target, args, populator, hook, specTools>>

RerunInit == Init /\ ~args.jsonOutput

RerunNext == Next \/ Rerun

RerunSpec == RerunInit /\ [][RerunNext]_vars

-----------------------------------------------------------------------------
(* The script graph generator on its own, over arbitrary component lists *)

ScriptTypes ==
    {"contract", "server", "webapp", "database", "helm", "testing", "cicd", "lambda"}

ScriptNames == {"api", "helm"}

\* the types of the default branch: no script of their own
InertTypes == {"testing", "cicd", "lambda"}

ScriptPool ==
    {Component(t, n) : t \in ScriptTypes \ InertTypes, n \in ScriptNames}
    \cup {Component(t, "api") : t \in InertTypes}

ScriptInit ==
    /\ rawConfig \in {RawConfig(ConfigFields, cs) : cs \in SeqsUpTo(ScriptPool, MaxScriptComponents)}
    /\ skills = AllTemplates
    /\ target = FreshTarget
    /\ pc = "scripts"
    /\ created = NothingCreated
    /\ componentScripts = initialComponentScripts
    /\ metaScripts = EmptyMap
    /\ result = NoResult
    /\ stderr = <<>>
    /\ exitCode = -1
    /\ args = [jsonOutput |-> FALSE]
    /\ stdout = <<>>
    /\ before = target
    /\ run = 1
    /\ written = {}
    /\ populator = NoPopulator
    /\ hook = NoHook
    /\ specTools = NoSpecTools

GenerateComponentScripts ==
    /\ pc = "scripts"
    /\ pc' = "meta"
    /\ componentScripts' = generateComponentScripts(components, config)
    /\ UNCHANGED <<rawConfig, skills, target, created, metaScripts, result, stderr, exitCode,
                   stdout, written, fixed>>

GenerateMetaScripts ==
    /\ pc = "meta"
    /\ pc' = "scriptsDone"
    /\ metaScripts' = generateMetaScripts(componentScripts)
    /\ UNCHANGED <<rawConfig, skills, target, created, componentScripts, result, stderr,
                   exitCode, stdout, written, fixed>>

ScriptNext == GenerateComponentScripts \/ GenerateMetaScripts

ScriptSpec == ScriptInit /\ [][ScriptNext]_vars

-----------------------------------------------------------------------------
(* The Domain Populator (domain-population.ts): strings                    *)
(*                                                                         *)
(* A string the populator inspects is the sequence of its characters; a    *)
(* run of fixed text that holds no "|", no "Term", no "---" and no heading *)
(* is kept as one fragment.  A file is the sequence of its lines, that is  *)
(* content.split('\n'): a file that ends with a newline has an empty last  *)
(* line.                                                                   *)

Alnum ==
    {"a", "b", "c", "d", "e", "f", "g", "h", "i", "j", "k", "l", "m", "n", "o", "p", "q",
     "r", "s", "t", "u", "v", "w", "x", "y", "z", "0", "1", "2", "3", "4", "5", "6", "7",
     "8", "9"}

\* String.prototype.toLowerCase, over the capitals that occur
lowerChar(c) ==
    CASE c = "A" -> "a"
      [] c = "R" -> "r"
      [] c = "T" -> "t"
      [] c = "U" -> "u"
      [] OTHER -> c

toLowerCase(text) == [i \in DOMAIN text |-> lowerChar(text[i])]

\* String.prototype.includes
includes(text, pattern) ==
    \E i \in 0..(Len(text) - Len(pattern)) : SubSeq(text, i + 1, i + Len(pattern)) = pattern

startsWith(text, pattern) ==
    Len(text) >= Len(pattern) /\ SubSeq(text, 1, Len(pattern)) = pattern

RECURSIVE trimStart(_)
trimStart(text) ==
    IF text # <<>> /\ Head(text) = " " THEN trimStart(Tail(text)) ELSE text

RECURSIVE trimEnd(_)
trimEnd(text) ==
    IF text # <<>> /\ text[Len(text)] = " " THEN trimEnd(SubSeq(text, 1, Len(text) - 1))
    ELSE text

trim(text) == trimEnd(trimStart(text))

\* text.split(separator), separator a single character
RECURSIVE split(_, _)
split(text, separator) ==
    IF \A i \in DOMAIN text : text[i] # separator THEN <<text>>
    ELSE LET at == CHOOSE i \in DOMAIN text :
                        text[i] = separator /\ \A j \in 1..(i - 1) : text[j] # separator
         IN  <<SubSeq(text, 1, at - 1)>> \o split(SubSeq(text, at + 1, Len(text)), separator)

\* .replace(/[^a-z0-9]+/g, '-'): acc is the output so far
RECURSIVE hyphenate(_, _)
hyphenate(text, acc) ==
    IF text = <<>> THEN acc
    ELSE IF Head(text) \in Alnum THEN hyphenate(Tail(text), Append(acc, Head(text)))
    ELSE IF acc # <<>> /\ acc[Len(acc)] = "-" THEN hyphenate(Tail(text), acc)
    ELSE hyphenate(Tail(text), Append(acc, "-"))

\* .replace(/^-+|-+$/g, '')
stripHyphens(text) ==
    LET from == IF text # <<>> /\ Head(text) = "-" THEN 2 ELSE 1
        to == IF Len(text) >= from /\ text[Len(text)] = "-" THEN Len(text) - 1 ELSE Len(text)
    IN  SubSeq(text, from, to)

slugify(text) == stripHyphens(hyphenate(toLowerCase(text), <<>>))

-----------------------------------------------------------------------------
(* The Domain Populator: glossary and snapshot *)

NoFile == [exists |-> FALSE, lines |-> <<>>]

File(lines) == [exists |-> TRUE, lines |-> lines]

\* fsp.readFile(path, 'utf-8').catch(() => defaultContent)
readOr(file, defaultContent) == IF file.exists THEN file.lines ELSE defaultContent

TableHeader ==
    <<"|", " ", "T", "e", "r", "m", " ", "|", " Definition ", "|", " Related ",
      "T", "e", "r", "m", "s", " ", "|">>

TableRule ==
    <<"|", "-", "-", "-", "-", "-", "-", "|", "-", "-", "-", "-", "-", "-", "-", "-", "-",
      "-", "-", "-", "|", "-", "-", "-", "-", "-", "-", "-", "-", "-", "-", "-", "-", "-",
      "-", "-", "|">>

\* defaultContent of updateGlossary
defaultGlossary(domain) ==
    << <<"# Domain Glossary">>,
       <<>>,
       <<"This glossary defines key terms and concepts in the ">> \o domain \o <<" domain.">>,
       <<>>,
       <<"## Entities">>,
       <<>>,
       TableHeader,
       TableRule,
       <<>> >>

\* the row updateGlossary writes for an entity
glossaryRow(entity, domain) ==
    <<"|", " ">> \o entity \o <<" ", "|", " ", "A", " ">> \o toLowerCase(entity)
        \o <<" in the ">> \o toLowerCase(domain)
        \o <<" domain. ", "|", " (to be defined) ", "|">>

\* the filter of updateGlossary over the lines of the glossary
isEntryLine(line) ==
    /\ startsWith(line, <<"|">>)
    /\ ~includes(line, <<"T", "e", "r", "m">>)
    /\ ~includes(line, <<"-", "-", "-">>)

\* line.split('|')[1]?.trim().toLowerCase()
termOf(line) ==
    LET cells == split(line, "|")
    IN  IF Len(cells) >= 2 THEN toLowerCase(trim(cells[2])) ELSE <<>>

existingEntities(lines) ==
    {termOf(lines[i]) : i \in {j \in DOMAIN lines : isEntryLine(lines[j])}} \ {<<>>}

newEntries(entities, lines, domain) ==
    LET fresh == SelectSeq(entities,
                           LAMBDA entity : toLowerCase(entity) \notin existingEntities(lines))
    IN  [i \in DOMAIN fresh |-> glossaryRow(fresh[i], domain)]

\* content.lastIndexOf('|') as the number of the line that holds it, 0 for -1
lastTableLine(lines) ==
    LET holding == {i \in DOMAIN lines : includes(lines[i], <<"|">>)}
    IN  IF holding = {} THEN 0 ELSE CHOOSE i \in holding : \A j \in holding : j <= i

\* updatedContent of updateGlossary
insertEntries(lines, entries) ==
    LET at == lastTableLine(lines)
    IN  IF at # 0 /\ at < Len(lines)
        THEN SubSeq(lines, 1, at) \o entries \o SubSeq(lines, at + 1, Len(lines))
        ELSE lines \o entries \o << <<>> >>

Heading == "## Product Overview"

\* defaultContent of updateSnapshot
defaultSnapshot ==
    << <<"# Project Snapshot">>, <<>>, <<"Current state of the project specifications.">>,
       <<>>, <<>> >>

\* faulty variant: the heading is looked for in the first line only
hasOverviewInFirstLine(lines) == lines # <<>> /\ \E k \in DOMAIN lines[1] : lines[1][k] = Heading

\* content.includes('## Product Overview')
hasOverview(lines) == \E i \in DOMAIN lines : \E k \in DOMAIN lines[i] : lines[i][k] = Heading

RECURSIVE joinWith(_, _)
joinWith(texts, separator) ==
    IF texts = <<>> THEN <<>>
    ELSE IF Len(texts) = 1 THEN texts[1]
    ELSE texts[1] \o separator \o joinWith(Tail(texts), separator)

\* the sections array of updateSnapshot, one line each
sections(cfg) ==
    << <<Heading>>, <<>>, <<"**Problem:** ">> \o cfg.product_description, <<>> >>
    \o (IF cfg.user_personas # <<>>
        THEN << <<"**Target Users:**">> >>
             \o [i \in DOMAIN cfg.user_personas |->
                    <<"- ", cfg.user_personas[i].type, ": ", cfg.user_personas[i].actions>>]
             \o << <<>> >>
        ELSE <<>>)
    \o (IF cfg.core_workflows # <<>>
        THEN << <<"**Core Capabilities:**">> >>
             \o [i \in DOMAIN cfg.core_workflows |-> <<"- ">> \o cfg.core_workflows[i]]
             \o << <<>> >>
        ELSE <<>>)
    \o (IF cfg.domain_entities # <<>>
        THEN << <<"**Key Entities:** ">> \o joinWith(cfg.domain_entities, <<", ">>), <<>> >>
        ELSE <<>>)

\* content + sections.join('\n'): the first section continues the last line of content
appendSections(lines, added) ==
    SubSeq(lines, 1, Len(lines) - 1)
    \o <<lines[Len(lines)] \o Head(added)>>
    \o Tail(added)

-----------------------------------------------------------------------------
(* The Domain Populator: main and populateDomain *)

\* every variable of the scaffolder
scaffolderVars ==
    <<rawConfig, skills, target, pc, created, componentScripts, metaScripts, result, stderr,
      exitCode, args, stdout, before, run, written>>

PopulatorFields ==
    {"target_dir", "primary_domain", "product_description", "user_personas", "core_workflows",
     "domain_entities"}

populatorRequired == <<"target_dir", "primary_domain", "product_description">>

populatorMissingFields(raw) ==
    SelectSeq(populatorRequired, LAMBDA field : field \notin raw.present)

Task == <<"T", "a", "s", "k">>

EntityPool == {Task, <<"t", "a", "s", "k">>, <<"U", "s", "e", "r">>, <<"T", "e", "r", "m", "s">>}

Retail == <<"R", "e", "t", "a", "i", "l">>

AddTask == <<"A", "d", "d", " ", "t", "a", "s", "k">>

Descriptions == { <<"Task management for teams">>, <<"Orders and refunds">> }

\* the workflow and persona lists a run is tried with
Audiences ==
    { [core_workflows |-> <<>>, user_personas |-> <<>>],
      [core_workflows |-> <<AddTask>>, user_personas |-> <<>>],
      [core_workflows |-> <<AddTask>>,
       user_personas |-> <<[type |-> "PM", actions |-> "create tasks"]>>] }

\* the configuration document, with the defaults main fills in for absent lists
PopulatorConfig(present, entities, audience, description) ==
    [present |-> present,
     primary_domain |-> Retail,
     product_description |-> description,
     user_personas |-> IF "user_personas" \in present THEN audience.user_personas ELSE <<>>,
     core_workflows |-> IF "core_workflows" \in present THEN audience.core_workflows ELSE <<>>,
     domain_entities |-> IF "domain_entities" \in present THEN entities ELSE <<>>]

PopulatorConfigs ==
    {PopulatorConfig(PopulatorFields, entities, audience, <<"Task management for teams">>) :
        entities \in SeqsUpTo(EntityPool, MaxEntities), audience \in Audiences}
    \cup {PopulatorConfig(present, <<Task>>, [core_workflows |-> <<>>, user_personas |-> <<>>],
                          <<"Task management for teams">>) : present \in SUBSET PopulatorFields}

definitionsDir == <<"specs", "domain", "definitions">>

useCasesDir == <<"specs", "domain", "use-cases">>

glossaryDir == <<"specs", "domain">>

snapshotDir == <<"specs">>

\* a target before any scaffolding, and the specs tree a scaffolder run leaves
NoTree ==
    [dirs |-> {}, glossary |-> NoFile, snapshot |-> NoFile, definitions |-> EmptyMap,
     useCases |-> EmptyMap]

SpecsTree(glossary, snapshot) ==
    [dirs |-> Prefixes(definitionsDir) \cup Prefixes(useCasesDir), glossary |-> glossary,
     snapshot |-> snapshot, definitions |-> EmptyMap, useCases |-> EmptyMap]

Glossaries ==
    { NoFile,
      File(insertEntries(defaultGlossary(Retail), <<glossaryRow(Task, Retail)>>)),
      File(insertEntries(defaultGlossary(Retail),
                         <<glossaryRow(<<"T", "e", "r", "m", "s">>, Retail)>>)),
      File(SubSeq(defaultGlossary(Retail), 1, Len(defaultGlossary(Retail)) - 1)),
      File(<< <<"# Domain Glossary">>, <<"No terms yet.">> >>) }

Snapshots ==
    { NoFile,
      File(defaultSnapshot),
      File(defaultSnapshot \o << <<Heading>>, <<>>, <<"**Problem:** Paper forms">>, <<>> >>),
      File(<< <<"# Project Snapshot">>, <<"Notes">> >>) }

PopulatorTrees ==
    {NoTree}
    \cup {SpecsTree(glossary, NoFile) : glossary \in Glossaries}
    \cup {SpecsTree(NoFile, snapshot) : snapshot \in Snapshots}

NoPopulationResult ==
    [success |-> FALSE, files_updated |-> <<>>, entity_definitions_created |-> 0,
     use_cases_created |-> 0, glossary_entries_added |-> 0]

\* the content createEntityDefinition writes
entityDefinition(entity, domain) ==
    [name |-> entity, domain |-> domain, heading |-> entity,
     description |-> <<"A ">> \o toLowerCase(entity) \o <<" in the ">> \o toLowerCase(domain)
                     \o <<" domain.">>]

\* the content createUseCaseStub writes
useCaseStub(workflow, domain, personas) ==
    [name |-> workflow, domain |-> domain,
     actors |-> IF personas # <<>> THEN [i \in DOMAIN personas |-> personas[i].type]
                ELSE <<"User">>,
     heading |-> workflow,
     summary |-> <<"Allows users to ">> \o toLowerCase(workflow) \o <<".">>]

\* the relative paths createEntityDefinition and createUseCaseStub return
fileNames(dir, texts) == [i \in DOMAIN texts |-> dir \o <<slugify(texts[i]), ".md">>]

\* the outcomes of concurrent writeFile calls: per slug, the stub of one of the
\* texts with that slug is what remains
Written(texts) ==
    {winner \in [{slugify(text) : text \in Range(texts)} -> Range(texts)] :
        \A slug \in DOMAIN winner : slugify(winner[slug]) = slug}

PopulatorInit ==
    /\ \E cfg \in PopulatorConfigs, tree \in PopulatorTrees, json \in BOOLEAN :
          populator = [pc |-> "main", config |-> cfg, jsonOutput |-> json, tree |-> tree,
                       before |-> tree, run |-> 1, glossaryEntries |-> 0,
                       result |-> NoPopulationResult, stderr |-> <<>>, stdout |-> <<>>,
                       exitCode |-> -1]
    /\ rawConfig = RawConfig(ConfigFields, <<>>)
    /\ skills = AllTemplates
    /\ target = FreshTarget
    /\ pc = "idle"
    /\ created = NothingCreated
    /\ componentScripts = initialComponentScripts
    /\ metaScripts = EmptyMap
    /\ result = NoResult
    /\ stderr = <<>>
    /\ exitCode = -1
    /\ args = [jsonOutput |-> FALSE]
    /\ stdout = <<>>
    /\ before = target
    /\ run = 1
    /\ written = {}
    /\ hook = NoHook
    /\ specTools = NoSpecTools

\* main: validation of the configuration document
PopulatorMain ==
    /\ populator.pc = "main"
    /\ populator' =
          IF populatorMissingFields(populator.config) # <<>>
          THEN [populator EXCEPT
                  !.stderr = Append(@, <<"Error: Missing required config fields:">>
                                       \o populatorMissingFields(populator.config)),
                  !.exitCode = 1,
                  !.pc = "exit"]
          ELSE [populator EXCEPT !.pc = "entities"]
    /\ UNCHANGED <<scaffolderVars, hook, specTools>>

\* await Promise.all(config.domain_entities.map(createEntityDefinition))
CreateEntityDefinitions ==
    /\ populator.pc = "entities"
    /\ LET entities == populator.config.domain_entities
       IN  \E winner \in Written(entities) :
              populator' =
                 [populator EXCEPT
                    !.tree.dirs = IF entities = <<>> THEN @ ELSE @ \cup Prefixes(definitionsDir),
                    !.tree.definitions =
                        Spread(@, [slug \in DOMAIN winner |->
                                     entityDefinition(winner[slug],
                                                      populator.config.primary_domain)]),
                    !.pc = "useCases"]
    /\ UNCHANGED <<scaffolderVars, hook, specTools>>

\* await Promise.all(config.core_workflows.map(createUseCaseStub))
CreateUseCaseStubs ==
    /\ populator.pc = "useCases"
    /\ LET workflows == populator.config.core_workflows
       IN  \E winner \in Written(workflows) :
              populator' =
                 [populator EXCEPT
                    !.tree.dirs = IF workflows = <<>> THEN @ ELSE @ \cup Prefixes(useCasesDir),
                    !.tree.useCases =
                        Spread(@, [slug \in DOMAIN winner |->
                                     useCaseStub(winner[slug], populator.config.primary_domain,
                                                 populator.config.user_personas)]),
                    !.pc = "glossary"]
    /\ UNCHANGED <<scaffolderVars, hook, specTools>>

\* main's catch block
populatorFailed(p, message) ==
    [p EXCEPT !.stderr = Append(@, <<"Error:", message>>),
              !.stdout = printJson(@, p.jsonOutput, ErrorJson(message)),
              !.exitCode = 1,
              !.pc = "exit"]

\* await updateGlossary(config.domain_entities, config.primary_domain, targetDir)
UpdateGlossary ==
    /\ populator.pc = "glossary"
    /\ LET lines == readOr(populator.tree.glossary,
                           defaultGlossary(populator.config.primary_domain))
           entries == newEntries(populator.config.domain_entities, lines,
                                 populator.config.primary_domain)
       IN  populator' =
              IF entries = <<>> THEN [populator EXCEPT !.glossaryEntries = 0, !.pc = "snapshot"]
              ELSE IF glossaryDir \in populator.tree.dirs
              THEN [populator EXCEPT !.tree.glossary = File(insertEntries(lines, entries)),
                                     !.glossaryEntries = Len(entries),
                                     !.pc = "snapshot"]
              ELSE populatorFailed(populator, "ENOENT")
    /\ UNCHANGED <<scaffolderVars, hook, specTools>>

\* await updateSnapshot(config, targetDir)
UpdateSnapshot ==
    /\ populator.pc = "snapshot"
    /\ LET lines == readOr(populator.tree.snapshot, defaultSnapshot)
       IN  populator' =
              IF hasOverview(lines) THEN [populator EXCEPT !.pc = "summary"]
              ELSE IF snapshotDir \in populator.tree.dirs
              THEN [populator EXCEPT
                      !.tree.snapshot = File(appendSections(lines, sections(populator.config))),
                      !.pc = "summary"]
              ELSE populatorFailed(populator, "ENOENT")
    /\ UNCHANGED <<scaffolderVars, hook, specTools>>

\* the PopulationResult returned by populateDomain, printed and turned into the exit code
PopulatorReturn ==
    /\ populator.pc = "summary"
    /\ LET cfg == populator.config
           entityFiles == fileNames(definitionsDir, cfg.domain_entities)
           useCaseFiles == fileNames(useCasesDir, cfg.core_workflows)
           glossaryFile == IF populator.glossaryEntries > 0
                           THEN << <<"specs", "domain", "glossary.md">> >> ELSE <<>>
           outcome == [success |-> TRUE,
                       files_updated |-> entityFiles \o useCaseFiles \o glossaryFile
                                         \o << <<"specs", "SNAPSHOT.md">> >>,
                       entity_definitions_created |-> Len(entityFiles),
                       use_cases_created |-> Len(useCaseFiles),
                       glossary_entries_added |-> populator.glossaryEntries]
       IN  populator' = [populator EXCEPT !.result = outcome,
                                          !.stdout = printJson(@, populator.jsonOutput, outcome),
                                          !.exitCode = 0,
                                          !.pc = "exit"]
    /\ UNCHANGED <<scaffolderVars, hook, specTools>>

\* the populator invoked again on the same target with the same lists
PopulatorRerun ==
    /\ populator.pc = "exit"
    /\ populator.run < MaxRuns
    /\ \E description \in Descriptions :
          populator' = [populator EXCEPT !.pc = "main",
                                         !.config.product_description = description,
                                         !.before = populator.tree,
                                         !.run = @ + 1,
                                         !.glossaryEntries = 0,
                                         !.result = NoPopulationResult,
                                         !.stderr = <<>>,
                                         !.stdout = <<>>,
                                         !.exitCode = -1]
    /\ UNCHANGED <<scaffolderVars, hook, specTools>>

PopulatorNext ==
    \/ PopulatorMain
    \/ CreateEntityDefinitions
    \/ CreateUseCaseStubs
    \/ UpdateGlossary
    \/ UpdateSnapshot
    \/ PopulatorReturn
    \/ PopulatorRerun

PopulatorSpec == PopulatorInit /\ [][PopulatorNext]_vars

-----------------------------------------------------------------------------
(* The write-validation hook (validate-sdd-writes.sh)                      *)
(*                                                                         *)
(* A file path is the sequence of its fragments, cut so that a blocked     *)
(* pattern or safe directory can only occur as whole fragments:            *)
(* "config/server.pem" is <<"config/", "server", ".pem">>.                 *)

\* the patterns are quoted in the case statement: "*" stands for itself
BLOCKED_PATTERNS ==
    << <<".env">>, <<"secrets/">>, <<".git/">>, <<"node_modules/">>, <<"credentials">>,
       <<"*", ".pem">>, <<"*", ".key">>, <<"id_rsa">>, <<"id_ed25519">> >>

SAFE_DIRS ==
    << <<"specs/">>, <<"components/">>, <<"config/">>, <<".github/workflows/">>, <<"docs/">>,
       <<"tests/">> >>

SAFE_FILES ==
    << <<"README.md">>, <<"CLAUDE.md">>, <<"package.json">>, <<".gitignore">>,
       <<"sdd-settings.yaml">>, <<"tsconfig.json">>, <<"vitest.config.ts">>,
       <<"jest.config.js">>, <<"jest.config.ts">> >>

\* file_path="${file_path#./}"
normalizePath(path) == IF startsWith(path, <<"./">>) THEN Tail(path) ELSE path

\* the decision order of the script, on the normalized path
decide(tool, path) ==
    IF tool \notin {"Write", "Edit"} THEN "passthrough"
    ELSE IF path = <<>> THEN "passthrough"
    ELSE IF \E i \in DOMAIN BLOCKED_PATTERNS : includes(path, BLOCKED_PATTERNS[i]) THEN "block"
    ELSE IF \E i \in DOMAIN SAFE_DIRS : startsWith(path, SAFE_DIRS[i]) THEN "allow"
    ELSE IF \E i \in DOMAIN SAFE_FILES : path = SAFE_FILES[i] THEN "allow"
    ELSE "passthrough"

HookTools == {"Write", "Edit", "Read"}

HookDirs ==
    { <<>>, <<"./">>, <<"specs/">>, <<"components/">>, <<"config/">>, <<".github/workflows/">>,
      <<"src/">>, <<"secrets/">>, <<".git/">>, <<"node_modules/">>, <<"config/", "secrets/">>,
      <<"./", "specs/">> }

HookNames ==
    { <<>>, <<"README.md">>, <<"package.json">>, <<"notes.md">>, <<".env">>,
      <<".env", ".local">>, <<"credentials", ".json">>, <<"server", ".pem">>,
      <<"tls", ".key">>, <<"*", ".pem">>, <<"id_rsa">>, <<"id_ed25519", ".pub">> }

HookPaths == {dir \o name : dir \in HookDirs, name \in HookNames}

HookInit ==
    /\ \E tool \in HookTools, path \in HookPaths :
          hook = [pc |-> "start", tool |-> tool, file_path |-> path, decision |-> "none"]
    /\ populator = NoPopulator
    /\ specTools = NoSpecTools
    /\ rawConfig = RawConfig(ConfigFields, <<>>)
    /\ skills = AllTemplates
    /\ target = FreshTarget
    /\ pc = "idle"
    /\ created = NothingCreated
    /\ componentScripts = initialComponentScripts
    /\ metaScripts = EmptyMap
    /\ result = NoResult
    /\ stderr = <<>>
    /\ exitCode = -1
    /\ args = [jsonOutput |-> FALSE]
    /\ stdout = <<>>
    /\ before = target
    /\ run = 1
    /\ written = {}

\* one run of the script: the decision printed, or nothing for passthrough; exit 0
ValidateWrite ==
    /\ hook.pc = "start"
    /\ hook' = [hook EXCEPT !.file_path = normalizePath(@),
                            !.decision = decide(hook.tool, normalizePath(hook.file_path)),
                            !.pc = "done"]
    /\ UNCHANGED <<scaffolderVars, populator, specTools>>

HookNext == ValidateWrite

HookSpec == HookInit /\ [][HookNext]_vars

-----------------------------------------------------------------------------
(* The spec scripts: validate-spec.ts and generate-index.ts.  A command-line  *)
(* argument and a path are sequences of fragments, so that startsWith('-')    *)
(* and the .md suffix are computed.  The result of parseFrontmatter is an     *)
(* input: a file either has no frontmatter or has a map of fields.            *)

undefined == "undefined"

\* JavaScript truthiness of an optional string
falsy(value) == value = undefined \/ value = ""

\* fm[field]
fmField(fm, name) == IF name \in DOMAIN fm THEN fm[name] ELSE undefined

\* args[i], zero-based, undefined outside the array
argAt(array, i) == IF i + 1 \in DOMAIN array THEN array[i + 1] ELSE undefined

\* Array.prototype.indexOf, zero-based, -1 when absent
indexOf(array, item) ==
    IF \E i \in DOMAIN array : array[i] = item
    THEN (CHOOSE i \in DOMAIN array : array[i] = item /\ \A j \in 1..(i - 1) : array[j] # item) - 1
    ELSE -1

REQUIRED_FIELDS == <<"title", "status", "domain", "issue", "created", "updated">>
VALID_STATUSES == <<"active", "deprecated", "superseded", "archived">>
PLACEHOLDER_ISSUES == <<"PROJ-XXX", "[PROJ-XXX]", "TODO", "", "{{ISSUE}}">>

AllFlag == <<"-", "-", "all">>
SpecsDirFlag == <<"-", "-", "specs-dir">>
DefaultSpecsDir == <<"specs/">>

SpecA == <<"specs/", "a", ".md">>
SpecB == <<"specs/", "changes/", "b", ".md">>
IndexFile == <<"specs/", "INDEX", ".md">>
SpecPaths == {SpecA, SpecB, IndexFile}

AbsentFile == [exists |-> FALSE, parsed |-> FALSE, fm |-> EmptyMap]
NoFrontmatter == [exists |-> TRUE, parsed |-> FALSE, fm |-> EmptyMap]
Frontmatter(fm) == [exists |-> TRUE, parsed |-> TRUE, fm |-> fm]

SpecFm(status, issue, createdOn) ==
    [title |-> "Spec", status |-> status, domain |-> "Core", issue |-> issue,
     created |-> createdOn, updated |-> "2026-02-01"]

SpecFilePool ==
    {AbsentFile, NoFrontmatter,
     Frontmatter([title |-> "Spec", domain |-> "Core", issue |-> "PROJ-1",
                  created |-> "2026-01-01", updated |-> "2026-02-01"]),
     Frontmatter(SpecFm("draft", "PROJ-1", "2026-01-01")),
     Frontmatter(SpecFm("active", "TODO", "2026-01-01"))}
    \cup {Frontmatter(SpecFm(VALID_STATUSES[i], "PROJ-1", "2026-01-02")) : i \in DOMAIN VALID_STATUSES}

\* the file systems the spec scripts run on: specs/ missing, or specs/ with its files
SpecFileSystems ==
    {[specs |-> FALSE, files |-> [path \in SpecPaths |-> AbsentFile]]}
    \cup {[specs |-> TRUE, files |-> files] :
            files \in {f \in [SpecPaths -> SpecFilePool] :
                          f[IndexFile] \in {AbsentFile, NoFrontmatter}}}

SpecArgLists ==
    { <<>>, <<SpecA>>, <<SpecB>>, <<SpecA, SpecB>>, <<SpecA, SpecA>>,
      <<AllFlag>>, <<AllFlag, SpecsDirFlag, DefaultSpecsDir>>, <<AllFlag, SpecsDirFlag>>,
      <<AllFlag, SpecsDirFlag, <<"other/">>>>, <<SpecsDirFlag, DefaultSpecsDir, SpecA>>,
      <<SpecA, SpecsDirFlag, DefaultSpecsDir>>, <<SpecsDirFlag>> }

\* spec-utils.ts
specsDirectoryExists(fs, dir) == dir = DefaultSpecsDir /\ fs.specs

EXCLUDED_FILES == {<<"INDEX", ".md">>, <<"SNAPSHOT", ".md">>, <<"glossary", ".md">>}

isExcludedFile(path) == SubSeq(path, Len(path) - 1, Len(path)) \in EXCLUDED_FILES

\* the .md files below dir, in directory order
walkSpecsDir(fs, dir) ==
    SelectSeq(<<SpecA, SpecB, IndexFile>>,
              LAMBDA path : /\ fs.files[path].exists
                            /\ startsWith(path, dir)
                            /\ path[Len(path)] = ".md")

findSpecFiles(fs, dir) ==
    Map(SelectSeq(walkSpecsDir(fs, dir), LAMBDA path : ~isExcludedFile(path)),
        LAMBDA path : [path |-> path,
                       relativePath |-> SubSeq(path, Len(dir) + 1, Len(path)),
                       file |-> fs.files[path]])

\* validate-spec.ts
ValidationError(file, message) == [file |-> file, message |-> message]

validateSpec(fs, specPath) ==
    IF specPath \notin SpecPaths \/ ~fs.files[specPath].exists
    THEN <<ValidationError(specPath, <<"File not found">>)>>
    ELSE IF ~fs.files[specPath].parsed
    THEN <<ValidationError(specPath, <<"Missing frontmatter">>)>>
    ELSE LET fm == fs.files[specPath].fm
             status == fmField(fm, "status")
             issue == fmField(fm, "issue")
             missingFieldErrors ==
                 Map(SelectSeq(REQUIRED_FIELDS, LAMBDA name : falsy(fmField(fm, name))),
                     LAMBDA name : ValidationError(specPath, <<"Missing required field '", name, "'">>))
             statusErrors ==
                 IF ~falsy(status) /\ status \notin Range(VALID_STATUSES)
                 THEN <<ValidationError(specPath, <<"Invalid status '", status, "'">>)>>
                 ELSE <<>>
             issueErrors ==
                 IF ~falsy(issue) /\ issue \in Range(PLACEHOLDER_ISSUES)
                 THEN <<ValidationError(specPath, <<"Issue field is placeholder.">>)>>
                 ELSE <<>>
         IN  missingFieldErrors \o statusErrors \o issueErrors

\* the first argument that is no flag and differs from the one after --specs-dir
firstPositional(argv, excluded) ==
    LET found == SelectSeq(argv, LAMBDA arg : ~startsWith(arg, <<"-">>) /\ arg # excluded)
    IN  IF found = <<>> THEN undefined ELSE Head(found)

validateParseArgs(argv) ==
    LET specsDirIndex == indexOf(argv, SpecsDirFlag)
        afterFlag == argAt(argv, specsDirIndex + 1)
    IN  [all |-> \E i \in DOMAIN argv : argv[i] = AllFlag,
         specsDir |-> IF specsDirIndex # -1 /\ afterFlag # undefined
                      THEN afterFlag ELSE DefaultSpecsDir,
         path |-> firstPositional(argv, afterFlag)]

UsageLines ==
    <<<<"Usage: validate-spec.ts <path-to-spec.md>">>,
      <<"       validate-spec.ts --all --specs-dir specs/">>>>

\* the check mark U+2713 is written [check]
ValidLine(path) == <<"[check] ", path, " is valid">>
AllValidLine(count) == <<"[check] All ", count, " specs are valid">>
ErrorsHeading == <<"Validation errors:">>

\* main of validate-spec.ts: the lines printed and the exit code
validateMain(fs, argv) ==
    LET parsed == validateParseArgs(argv)
    IN  IF parsed.all
        THEN IF ~specsDirectoryExists(fs, parsed.specsDir)
             THEN [stdout |-> <<>>,
                   stderr |-> <<<<"Error: Specs directory not found: ", parsed.specsDir>>>>,
                   exitCode |-> 1]
             ELSE LET specs == findSpecFiles(fs, parsed.specsDir)
                      allErrors == FlatMap(specs, LAMBDA spec : validateSpec(fs, spec.path))
                  IN  IF Len(allErrors) > 0
                      THEN [stdout |-> <<ErrorsHeading>> \o
                                       Map(allErrors, LAMBDA error :
                                               <<"  - ", error.file, ": ", error.message>>),
                            stderr |-> <<>>, exitCode |-> 1]
                      ELSE [stdout |-> <<AllValidLine(Len(specs))>>,
                            stderr |-> <<>>, exitCode |-> 0]
        ELSE IF parsed.path # undefined
        THEN LET errors == validateSpec(fs, parsed.path)
             IN  IF Len(errors) > 0
                 THEN [stdout |-> <<ErrorsHeading>> \o
                                  Map(errors, LAMBDA error : <<"  - ", error.message>>),
                       stderr |-> <<>>, exitCode |-> 1]
                 ELSE [stdout |-> <<ValidLine(parsed.path)>>, stderr |-> <<>>, exitCode |-> 0]
        ELSE [stdout |-> UsageLines, stderr |-> <<>>, exitCode |-> 1]

SpecToolsIdle ==
    /\ populator = NoPopulator
    /\ hook = NoHook
    /\ rawConfig = RawConfig(ConfigFields, <<>>)
    /\ skills = AllTemplates
    /\ target = FreshTarget
    /\ pc = "idle"
    /\ created = NothingCreated
    /\ componentScripts = initialComponentScripts
    /\ metaScripts = EmptyMap
    /\ result = NoResult
    /\ stderr = <<>>
    /\ exitCode = -1
    /\ args = [jsonOutput |-> FALSE]
    /\ stdout = <<>>
    /\ before = target
    /\ run = 1
    /\ written = {}

ValidateInit ==
    /\ \E fs \in SpecFileSystems, argv \in SpecArgLists :
          specTools = [pc |-> "start", program |-> "validate-spec", fs |-> fs, argv |-> argv,
                       stdout |-> <<>>, stderr |-> <<>>, exitCode |-> -1]
    /\ SpecToolsIdle

ValidateSpecMain ==
    /\ specTools.pc = "start"
    /\ specTools.program = "validate-spec"
    /\ LET out == validateMain(specTools.fs, specTools.argv)
       IN  specTools' = [specTools EXCEPT !.stdout = out.stdout, !.stderr = out.stderr,
                                          !.exitCode = out.exitCode, !.pc = "exit"]
    /\ UNCHANGED <<scaffolderVars, populator, hook>>

ValidateNext == ValidateSpecMain

ValidateSpecSpec == ValidateInit /\ [][ValidateNext]_vars

\* generate-index.ts

\* value ?? fallback
orElse(value, fallback) == IF value = undefined THEN fallback ELSE value

SpecEntry(spec) ==
    LET fm == IF spec.file.parsed THEN spec.file.fm ELSE EmptyMap
    IN  [title |-> orElse(fmField(fm, "title"), spec.path[Len(spec.path) - 1]),
         type |-> orElse(fmField(fm, "type"), "feature"),
         path |-> spec.relativePath,
         domain |-> orElse(fmField(fm, "domain"), "Unknown"),
         issue |-> orElse(fmField(fm, "issue"), ""),
         created |-> orElse(fmField(fm, "created"), ""),
         status |-> orElse(fmField(fm, "status"), "active")]

formatTableRow(spec) ==
    <<"| ", spec.title, " | ", spec.type, " | [", spec.path, "](", spec.path, ") | ",
      spec.domain, " | ", IF spec.issue # "" THEN <<"[", spec.issue, "](#)">> ELSE <<>>,
      " | ", spec.created, " |">>

\* the creation dates of the files, in localeCompare order
CreatedOrder == <<"", "2026-01-01", "2026-01-02">>

\* [...entries].sort((a, b) => a.created.localeCompare(b.created)): a stable sort
sortByCreated(entries) ==
    Flatten([i \in DOMAIN CreatedOrder |->
                SelectSeq(entries, LAMBDA entry : entry.created = CreatedOrder[i])])

\* byStatus[status] ?? []
byStatus(entries, status) == SelectSeq(entries, LAMBDA entry : entry.status = status)

TotalLine(total, active, deprecated, archived) ==
    <<"Total: ", total, " specs (Active: ", active, ", Deprecated: ", deprecated,
      ", Archived: ", archived, ")">>

generateIndex(fs, specsDir, today) ==
    LET specs == findSpecFiles(fs, specsDir)
        entries == Map(specs, SpecEntry)
        activeSpecs == byStatus(entries, "active")
        deprecatedSpecs == byStatus(entries, "deprecated")
        archivedSpecs == byStatus(entries, "archived")
        activeRows ==
            IF Len(activeSpecs) > 0 THEN Map(sortByCreated(activeSpecs), formatTableRow)
            ELSE <<<<"| *No active changes yet* | | | | | |">>>>
        deprecatedSection ==
            IF Len(deprecatedSpecs) > 0
            THEN <<<<"| Change | Type | Spec | Domain | Issue | Deprecated |">>,
                   <<"|--------|------|------|--------|-------|------------|">>>>
                 \o Map(sortByCreated(deprecatedSpecs), formatTableRow)
            ELSE <<<<"*None*">>>>
        archivedSection ==
            IF Len(archivedSpecs) > 0
            THEN <<<<"| Change | Type | Spec | Domain | Issue | Archived |">>,
                   <<"|--------|------|------|--------|-------|----------|">>>>
                 \o Map(sortByCreated(archivedSpecs), formatTableRow)
            ELSE <<<<"*None*">>>>
    IN  <<<<"# Spec Index">>, <<>>, <<"Last updated: ", today>>, <<>>,
          TotalLine(Len(specs), Len(activeSpecs), Len(deprecatedSpecs), Len(archivedSpecs)),
          <<>>, <<"## Active Changes">>, <<>>,
          <<"| Change | Type | Spec | Domain | Issue | Since |">>,
          <<"|--------|------|------|--------|-------|-------|">>>>
        \o activeRows
        \o <<<<>>, <<"## Deprecated">>, <<>>>> \o deprecatedSection
        \o <<<<>>, <<"## Archived">>, <<>>>> \o archivedSection

indexParseArgs(argv) ==
    LET specsDirIndex == indexOf(argv, SpecsDirFlag)
        afterFlag == argAt(argv, specsDirIndex + 1)
    IN  [specsDir |-> IF specsDirIndex # -1 /\ afterFlag # undefined
                      THEN afterFlag ELSE DefaultSpecsDir]

IndexArgLists ==
    {<<>>, <<SpecsDirFlag, DefaultSpecsDir>>, <<SpecsDirFlag>>, <<SpecsDirFlag, <<"other/">>>>}

Today == "2026-11-02"

NoIndex == <<>>

IndexInit ==
    /\ \E fs \in SpecFileSystems, argv \in IndexArgLists :
          specTools = [pc |-> "start", program |-> "generate-index", fs |-> fs, argv |-> argv,
                       index |-> NoIndex, stdout |-> <<>>, stderr |-> <<>>, exitCode |-> -1]
    /\ SpecToolsIdle

\* main of generate-index.ts: INDEX.md written into the specs directory, or the
\* error for a missing directory
GenerateIndexMain ==
    /\ specTools.pc = "start"
    /\ specTools.program = "generate-index"
    /\ LET parsed == indexParseArgs(specTools.argv)
           indexPath == parsed.specsDir \o <<"INDEX", ".md">>
       IN  IF ~specsDirectoryExists(specTools.fs, parsed.specsDir)
           THEN specTools' =
                    [specTools EXCEPT
                        !.stderr = <<<<"Error: Specs directory not found: ", parsed.specsDir>>>>,
                        !.exitCode = 1, !.pc = "exit"]
           ELSE specTools' =
                    [specTools EXCEPT
                        !.index = generateIndex(specTools.fs, parsed.specsDir, Today),
                        !.fs.files[indexPath] = NoFrontmatter,
                        !.stdout = <<<<"[check] Generated ", indexPath>>>>,
                        !.exitCode = 0, !.pc = "exit"]
    /\ UNCHANGED <<scaffolderVars, populator, hook>>

IndexNext == GenerateIndexMain

IndexSpec == IndexInit /\ [][IndexNext]_vars

-----------------------------------------------------------------------------
(* Properties of the script graph (ScriptSpec) *)

\* the script map handed to the manifest
scriptMap == mergedScripts(EmptyMap, componentScripts, metaScripts)

HasType(type) == \E i \in DOMAIN components : components[i].type = type

NamesOfType(type) ==
    {components[i].name : i \in {j \in DOMAIN components : components[j].type = type}}

AggregateNames == {"generate", "dev", "build", "test", "start"}

\* the keys one component contributes, by the suffix vocabulary of its type
PerComponentKeys ==
    UNION { {c.name \o ":" \o suffix :
                suffix \in CASE c.type = "contract" -> {"generate", "validate"}
                             [] c.type = "server" -> {"dev", "build", "start", "test"}
                             [] c.type = "webapp" -> {"dev", "build", "preview", "test"}
                             [] c.type = "database" ->
                                  {"setup", "teardown", "migrate", "seed", "reset",
                                   "port-forward", "psql"}
                             [] c.type = "helm" -> {"lint"}
                             [] OTHER -> {}} : c \in Range(components) }

\* C6: generate is present iff a contract component exists; dev, build, test and
\* start are present iff a server or webapp component exists; with none of the three
\* types no aggregate script is present and only per-component scripts remain.
C6_AggregateGating ==
    pc = "scriptsDone" =>
        /\ ("generate" \in DOMAIN scriptMap) <=> HasType("contract")
        /\ \A a \in {"dev", "build", "test", "start"} :
              (a \in DOMAIN scriptMap) <=> (HasType("server") \/ HasType("webapp"))
        /\ (~HasType("contract") /\ ~HasType("server") /\ ~HasType("webapp")) =>
              /\ DOMAIN scriptMap \cap AggregateNames = {}
              /\ DOMAIN scriptMap = PerComponentKeys

C6_Witness ==
    /\ pc = "scriptsDone"
    /\ HasType("contract") /\ ~HasType("server") /\ ~HasType("webapp")
    /\ "generate" \in DOMAIN scriptMap

\* C7: with a contract component, each of dev, build and test that exists runs
\* generate as its first, sequential step, ahead of --parallel and of every script of
\* the fan-out; without a contract component none of them names generate.
C7_GenerateFirst ==
    pc = "scriptsDone" =>
        \A a \in {"dev", "build", "test"} \cap DOMAIN metaScripts :
            LET cmd == metaScripts[a]
            IN  IF HasType("contract")
                THEN /\ Len(cmd) > 3
                     /\ cmd[1] = "npm-run-all"
                     /\ cmd[2] = "generate"
                     /\ cmd[3] = "--parallel"
                     /\ \A i \in 4..Len(cmd) : cmd[i] \notin {"generate", "--parallel"}
                ELSE "generate" \notin Range(cmd)

C7_Witness ==
    /\ pc = "scriptsDone"
    /\ HasType("contract") /\ HasType("server") /\ HasType("webapp")
    /\ {"dev", "build", "test"} \subseteq DOMAIN metaScripts

\* the script names a command runs after its last flag
FanOut(cmd, flag) ==
    LET at == CHOOSE i \in DOMAIN cmd : cmd[i] = flag /\ \A j \in DOMAIN cmd : cmd[j] = flag => j <= i
    IN  {cmd[i] : i \in (at + 1)..Len(cmd)}

\* C8: the parallel part of dev, build and test names exactly the same-named script
\* of every server and webapp; start names exactly name:start of every server and
\* name:preview of every webapp; generate names exactly name:generate of every
\* contract; and every script an aggregate refers to is a key of the script map.
C8_AggregateFanOut ==
    pc = "scriptsDone" =>
        /\ \A a \in {"dev", "build", "test"} \cap DOMAIN metaScripts :
              FanOut(metaScripts[a], "--parallel") =
                  {n \o ":" \o a : n \in NamesOfType("server") \cup NamesOfType("webapp")}
        /\ "start" \in DOMAIN metaScripts =>
              FanOut(metaScripts["start"], "--parallel") =
                  {n \o ":start" : n \in NamesOfType("server")}
                  \cup {n \o ":preview" : n \in NamesOfType("webapp")}
        /\ "generate" \in DOMAIN metaScripts =>
              FanOut(metaScripts["generate"], "npm-run-all") =
                  {n \o ":generate" : n \in NamesOfType("contract")}
        /\ \A a \in DOMAIN metaScripts :
              \A i \in 2..Len(metaScripts[a]) :
                  metaScripts[a][i] # "--parallel" => metaScripts[a][i] \in DOMAIN scriptMap

C8_Witness ==
    /\ pc = "scriptsDone"
    /\ HasType("server") /\ HasType("webapp") /\ HasType("contract")
    /\ Cardinality(FanOut(metaScripts["start"], "--parallel")) = 2
    /\ Cardinality(FanOut(metaScripts["generate"], "npm-run-all")) = 1

UniqueTypeNamePairs ==
    \A i, j \in DOMAIN components :
        (components[i].type = components[j].type /\ components[i].name = components[j].name)
            => i = j

\* the scripts one component writes by itself
OwnScripts(c) == componentScriptsStep(initialComponentScripts, c, config).scripts

\* C9: with all (type, name) pairs distinct, no script name is written by two
\* components with different commands, and every component finds its own command
\* under each of its script names in the generated map.
C9_NoSilentOverwrite ==
    (pc = "scriptsDone" /\ UniqueTypeNamePairs) =>
        /\ \A i, j \in DOMAIN components :
              \A k \in DOMAIN OwnScripts(components[i]) \cap DOMAIN OwnScripts(components[j]) :
                  OwnScripts(components[i])[k] = OwnScripts(components[j])[k]
        /\ \A i \in DOMAIN components :
              \A k \in DOMAIN OwnScripts(components[i]) :
                  k \in DOMAIN scriptMap /\ scriptMap[k] = OwnScripts(components[i])[k]

C9_Witness ==
    /\ pc = "scriptsDone"
    /\ UniqueTypeNamePairs
    /\ \E i, j \in DOMAIN components :
          /\ components[i].type = "server" /\ components[j].type = "webapp"
          /\ components[i].name = components[j].name
          /\ (components[i].name \o ":dev") \in DOMAIN scriptMap

\* the suffix vocabulary of a component type
SuffixesOf(type) ==
    CASE type = "contract" -> {"generate", "validate"}
      [] type = "server" -> {"dev", "build", "start", "test"}
      [] type = "webapp" -> {"dev", "build", "preview", "test"}
      [] type = "database" ->
           {"setup", "teardown", "migrate", "seed", "reset", "port-forward", "psql"}
      [] type = "helm" -> {"lint"}
      [] OTHER -> {}

KeysOf(component) == {component.name \o ":" \o suffix : suffix \in SuffixesOf(component.type)}

\* the per-component scripts after the first n components have been folded in
ScriptsAfter(n) == generateComponentScripts(SubSeq(components, 1, n), config).scripts

\* C11: each component adds exactly the script names {name}:{suffix} for the
\* suffixes of its type (contract: generate, validate; server: dev, build, start,
\* test; webapp: dev, build, preview, test; database: setup, teardown, migrate, seed,
\* reset, port-forward, psql; helm: lint), and a cicd, testing or unknown-type
\* component adds none.
C11_PerComponentScripts ==
    pc # "scripts" =>
        /\ componentScripts.scripts = ScriptsAfter(Len(components))
        /\ \A i \in DOMAIN components :
              /\ DOMAIN ScriptsAfter(i) = DOMAIN ScriptsAfter(i - 1) \cup KeysOf(components[i])
              /\ components[i].type \in {"cicd", "testing", "lambda"} =>
                    ScriptsAfter(i) = ScriptsAfter(i - 1)

C11_Witness ==
    /\ pc = "scriptsDone"
    /\ HasType("database") /\ HasType("cicd") /\ HasType("testing")
    /\ Cardinality(DOMAIN componentScripts.scripts) = 7

-----------------------------------------------------------------------------
(* Properties of a scaffolder run (Spec) *)

Succeeded == pc = "exit" /\ exitCode = 0

ValidConfig == missingFields(rawConfig) = <<>>

\* every template copy of Step 3
AllCopies ==
    projectCopies \o specCopies \o configCopies \o contractCopies \o serverCopies
    \o webappCopies \o databaseCopies

Substitutable(copy) == extname(basename(copy.src)) \in SUBSTITUTABLE_EXTENSIONS

\* C1: every entry of the manifest's scripts table whose name is not a generated
\* script name is still there, with its command, after the merge of Step 4.
C1_ExistingScriptsPreserved ==
    [][(pc = "npmScripts" /\ pc' = "summary") =>
          \A k \in DOMAIN target.files[pkgPath].scripts :
              k \notin (DOMAIN scriptMap)' =>
                  /\ k \in DOMAIN target'.files[pkgPath].scripts
                  /\ target'.files[pkgPath].scripts[k] = target.files[pkgPath].scripts[k]]_vars

\* the directory name the documentation gives a component
DocumentedDirName(c) == IF c.type = c.name THEN c.type ELSE c.type \o "-" \o c.name

DocumentedDirNames == {DocumentedDirName(c) : c \in Range(components)}

\* the template bundle copied into the components of a type
BundleOf(type) ==
    CASE type = "contract" -> contractTemplates
      [] type = "server" -> backendTemplates
      [] type = "webapp" -> frontendTemplates
      [] type = "database" -> databaseTemplates
      [] OTHER -> <<"none">>

FilesBelow(dir) == {f \in DOMAIN target.files : IsPrefix(dir, f)}

\* C2: the directory of a component is `type` when type = name and `type-name`
\* otherwise, in its created directories, its template copies, its line of the
\* architecture overview and its helm lint path; nothing else appears below components/.
C2_DirectoryNaming ==
    /\ \A d \in target.dirs : (Len(d) >= 2 /\ d[1] = "components") => d[2] \in DocumentedDirNames
    /\ \A f \in DOMAIN target.files :
          (Len(f) >= 2 /\ f[1] = "components") => f[2] \in DocumentedDirNames
    /\ Succeeded =>
          \A i \in DOMAIN components :
              LET c == components[i]
                  dir == <<"components", DocumentedDirName(c)>>
              IN  /\ dir \in target.dirs
                  /\ directoryExists(skills, BundleOf(c.type)) => FilesBelow(dir) # {}
                  /\ c.type = "cicd" => (dir \o <<"ci.yaml">>) \in DOMAIN target.files
                  /\ target.files[archOverview].text[3 * i + 2] =
                        "components/" \o DocumentedDirName(c) \o "/"
                  /\ c.type = "helm" =>
                        target.files[pkgPath].scripts[c.name \o ":lint"] =
                            <<"helm", "lint", "components/" \o DocumentedDirName(c)>>

C2_Witness ==
    /\ Succeeded
    /\ \E i, j \in DOMAIN components :
          /\ components[i].type = "helm" /\ components[i].name = "chart"
          /\ components[j].type = "server" /\ components[j].name = "server"
    /\ <<"components", "helm-chart">> \in target.dirs
    /\ <<"components", "server", "package.json">> \in DOMAIN target.files

\* C3: every file written from a template with a substitutable extension holds no
\* placeholder token and holds the configured value where a token stood.
C3_SubstitutionComplete ==
    Succeeded =>
        \A i \in DOMAIN AllCopies :
            LET copy == AllCopies[i]
                src == skills[copy.src].text
                out == target.files[copy.dest].text
            IN  Substitutable(copy) =>
                    /\ Range(out) \cap PLACEHOLDERS = {}
                    /\ \A k \in DOMAIN src :
                          /\ src[k] = "{{PROJECT_NAME}}" => out[k] = config.project_name
                          /\ src[k] = "{{PROJECT_DESCRIPTION}}" => out[k] = config.project_description
                          /\ src[k] = "{{PRIMARY_DOMAIN}}" => out[k] = config.primary_domain

\* the components whose directory a copy is written into
Owners(copy) ==
    {c \in Range(components) :
        Len(copy.dest) >= 2 /\ copy.dest[1] = "components" /\ copy.dest[2] = DocumentedDirName(c)}

\* C4: in the templates of a component that declares depends_on, {{CONTRACT_PACKAGE}}
\* becomes @project_name/first-dependency; in the templates of a component that
\* declares none, the token gets an empty replacement.
C4_ContractPackage ==
    Succeeded =>
        \A i \in DOMAIN AllCopies :
            LET copy == AllCopies[i]
                src == skills[copy.src].text
                out == target.files[copy.dest].text
            IN  Substitutable(copy) =>
                    \A c \in Owners(copy) :
                        \A k \in DOMAIN src :
                            src[k] = "{{CONTRACT_PACKAGE}}" =>
                                IF c.has_depends_on
                                THEN Len(c.depends_on) > 0 =>
                                        out[k] = "@" \o config.project_name \o "/"
                                                     \o c.depends_on[1]
                                ELSE out[k] = ""

Bundles ==
    {projectFilesDir, specsFilesDir, configFilesDir, contractTemplates, backendTemplates,
     frontendTemplates, databaseTemplates}

MissingBundles == {b \in Bundles : ~directoryExists(skills, b)}

\* C5: with a template bundle missing, the run still succeeds without an error, the
\* directories of the affected components exist and no file is copied for the bundle.
C5_MissingBundleTolerated ==
    (MissingBundles # {} /\ ValidConfig /\ pc = "exit") =>
        /\ exitCode = 0
        /\ stderr = <<>>
        /\ \A c \in Range(components) :
              /\ componentDir(c) \in target.dirs
              /\ BundleOf(c.type) \in MissingBundles => FilesBelow(componentDir(c)) = {}

NameNotUnique ==
    \E i, j \in DOMAIN components : i # j /\ components[i].name = components[j].name

\* C10: a configuration in which a component name is not unique is rejected as a
\* configuration error: the run ends in main with exit code 1 and creates nothing.
C10_DuplicatesRejected ==
    (ValidConfig /\ NameNotUnique) =>
        /\ pc \in {"main", "exit"}
        /\ pc = "exit" => (exitCode = 1 /\ created = NothingCreated)

\* the fields the configuration document lacks
Lacking ==
    {field \in {"project_name", "target_dir", "components"} : field \notin rawConfig.present}
    \cup (IF {"skills_dir", "template_dir"} \cap rawConfig.present = {} THEN {"skills_dir"}
          ELSE {})

\* C12: a configuration that lacks project_name, target_dir, components or a
\* resolvable skills_dir is answered by one error line on standard error naming every
\* missing field, exit code 1, and no directory created and no file written under the
\* target.
C12_MissingFieldsReported ==
    Lacking # {} =>
        /\ pc \in {"main", "exit"}
        /\ target = before /\ created = NothingCreated /\ written = {}
        /\ pc = "exit" =>
              /\ exitCode = 1
              /\ Len(stderr) = 1
              /\ Head(stderr[1]) = "Error: Missing required config fields:"
              /\ Range(Tail(stderr[1])) = Lacking
              /\ Len(Tail(stderr[1])) = Cardinality(Lacking)

C12_Witness ==
    /\ pc = "exit"
    /\ {"components", "skills_dir"} \subseteq Lacking
    /\ Len(stderr) = 1

\* C13: under --json-output every failed run, whether it fails validation of the
\* configuration or fails at runtime, has put a document {success: false, error}
\* on standard output.
C13_FailureJson ==
    (args.jsonOutput /\ pc = "exit" /\ exitCode = 1) =>
        \E i \in DOMAIN stdout :
            /\ stdout[i].success = FALSE
            /\ "error" \in DOMAIN stdout[i]

\* C14: a second run with the same configuration and templates leaves exactly the
\* directories and files the first run left, no path is both a directory and a
\* file, and every file, the manifest and its scripts table included, has the
\* content the first run gave it.
C14_RerunIdempotent ==
    (run > 1 /\ pc = "exit") =>
        /\ target.dirs = before.dirs
        /\ DOMAIN target.files = DOMAIN before.files
        /\ \A path \in DOMAIN target.files : target.files[path] = before.files[path]
        /\ target.dirs \cap DOMAIN target.files = {}

C14_Witness ==
    /\ run > 1 /\ pc = "exit" /\ exitCode = 0
    /\ pkgPath \in written
    /\ before.files[pkgPath].scripts # EmptyMap
    /\ Cardinality(target.dirs) > 10

-----------------------------------------------------------------------------
(* Properties of the Domain Populator (PopulatorSpec) *)

\* a row of the glossary table: a table line that is neither the header nor the rule
IsRow(line) == startsWith(line, <<"|">>) /\ line # TableHeader /\ line # TableRule

\* the first-column terms of a glossary, lower-cased
FirstColumnTerms(lines) == {termOf(lines[i]) : i \in {j \in DOMAIN lines : IsRow(lines[j])}}

\* the number of rows whose term matches the entity, case-insensitively
RowsFor(entity, lines) ==
    Cardinality({i \in DOMAIN lines : IsRow(lines[i]) /\ termOf(lines[i]) = toLowerCase(entity)})

PopulatorSucceeded == populator.pc = "exit" /\ populator.exitCode = 0

\* C15: after the first run every listed entity has exactly one glossary row, and
\* a second run with the same entity list appends no row and reports
\* glossary_entries_added = 0, for every entity list.
C15_GlossaryAppendOnce ==
    PopulatorSucceeded =>
        /\ \A entity \in Range(populator.config.domain_entities) :
              RowsFor(entity, populator.tree.glossary.lines) = 1
        /\ populator.run > 1 =>
              /\ populator.result.glossary_entries_added = 0
              /\ populator.tree.glossary = populator.before.glossary

\* the glossary content the run started from
StartingGlossary == readOr(populator.before.glossary, defaultGlossary(populator.config.primary_domain))

\* the rows owed: one per listed entity that matches no first-column term
RowsOwed ==
    LET unmatched == SelectSeq(populator.config.domain_entities,
                               LAMBDA entity :
                                  toLowerCase(entity) \notin FirstColumnTerms(StartingGlossary))
    IN  [i \in DOMAIN unmatched |-> glossaryRow(unmatched[i], populator.config.primary_domain)]

Occurrences(x, seq) == Cardinality({i \in DOMAIN seq : seq[i] = x})

\* C16: updateGlossary appends exactly one row per listed entity whose name matches
\* no first-column term of the existing table, case-insensitively, and none for an
\* entity that matches; every pre-existing line stays, unmodified and in order; an
\* absent glossary starts from the default table header.
C16_GlossaryRows ==
    populator.pc \in {"snapshot", "summary"} =>
        IF RowsOwed = <<>> THEN populator.tree.glossary = populator.before.glossary
        ELSE LET lines == populator.tree.glossary.lines
             IN  /\ populator.tree.glossary.exists
                 /\ SelectSeq(lines, LAMBDA line : line \notin Range(RowsOwed))
                       \in {StartingGlossary, StartingGlossary \o << <<>> >>}
                 /\ \A row \in Range(RowsOwed) :
                       Occurrences(row, lines) = Occurrences(row, RowsOwed)

HeadingLines(file) == {i \in DOMAIN file.lines : file.lines[i] = <<Heading>>}

\* C17: after any sequence of runs specs/SNAPSHOT.md holds at most one
\* "## Product Overview" heading, and a run that finds the heading present leaves
\* the snapshot file unchanged.
C17_SnapshotOneOverview ==
    /\ Cardinality(HeadingLines(populator.tree.snapshot)) <= 1
    /\ HeadingLines(populator.before.snapshot) # {} =>
          populator.tree.snapshot = populator.before.snapshot

C17_Witness ==
    /\ PopulatorSucceeded
    /\ populator.run > 1
    /\ populator.config.product_description = <<"Orders and refunds">>
    /\ HeadingLines(populator.before.snapshot) # {}
    /\ <<"**Problem:** ", "Task management for teams">> \in Range(populator.tree.snapshot.lines)

-----------------------------------------------------------------------------
(* Properties of the returned summary (Spec) *)

\* the files the summary itemizes
Itemized == BagToSet(result.files)

\* C18: on a successful run every file the run wrote under the target appears in
\* the files inventory of the summary.
C18_EveryWriteItemized == Succeeded => written \subseteq Itemized

\* C18, amended: every file a successful run wrote appears in the inventory, with
\* the one exception of the root package.json that Step 4 rewrites: it is itemized
\* only when the project bundle supplied it; every file the run created is itemized.
C18_WritesItemizedButManifest ==
    Succeeded =>
        /\ written \ {pkgPath} \subseteq Itemized
        /\ written \ DOMAIN before.files \subseteq Itemized
        /\ pkgPath \in written
        /\ pkgPath \in Itemized <=> pkgPath \in Range(dests(projectCopies))

C18_Witness ==
    /\ Succeeded
    /\ pkgPath \in written
    /\ pkgPath \notin Itemized
    /\ Cardinality(Itemized) > 5

\* C19: on a successful run created_dirs is the number of distinct directories the
\* run created and created_files the number of distinct files it wrote, for every
\* component list.  Checked here in a form that asks less: for lists without a
\* repeated (type, name) pair, created_dirs counts distinct directories among those
\* it reports and created_files counts distinct files among those it itemizes.
C19_CountsDistinct ==
    (Succeeded /\ UniqueTypeNamePairs) =>
        /\ result.created_dirs = Cardinality(BagToSet(created.dirs))
        /\ result.created_files = Cardinality(Itemized)

-----------------------------------------------------------------------------
(* Properties of the write-validation hook (HookSpec) *)

\* the paths documented as protected: .env*, secrets/, .git/, node_modules/,
\* credentials, id_rsa, id_ed25519 anywhere in the path; *.pem and *.key by the
\* extension of the file name
Protected(path) ==
    \/ \E k \in DOMAIN path :
          path[k] \in {".env", "secrets/", ".git/", "node_modules/", "credentials", "id_rsa",
                       "id_ed25519"}
    \/ path # <<>> /\ path[Len(path)] \in {".pem", ".key"}

\* C20: for every Write or Edit whose path matches a protected pattern the hook
\* emits a block decision and never an allow decision, also below a safe directory
\* such as specs/, components/ or config/.
C20_ProtectedBlocked ==
    (hook.pc = "done" /\ hook.tool \in {"Write", "Edit"} /\ Protected(hook.file_path)) =>
        hook.decision = "block"

\* C28: every file written into a database component directory from the
\* database template bundle, the scripts/*.sh files included, has each
\* {{PROJECT_NAME}} replaced by the configured project name.
C28_DatabaseBundleSubstituted ==
    Succeeded =>
        \A i \in DOMAIN databaseCopies :
            LET src == skills[databaseCopies[i].src].text
                out == target.files[databaseCopies[i].dest].text
            IN  /\ "{{PROJECT_NAME}}" \notin Range(out)
                /\ \A k \in DOMAIN src :
                      src[k] = "{{PROJECT_NAME}}" => out[k] = config.project_name

-----------------------------------------------------------------------------
(* Ordering of the steps of a scaffolder run (OrderSpec): the runs of Spec    *)
(* without --json-output, which has no part in the order of the steps.        *)

OrderInit == Init /\ ~args.jsonOutput

OrderSpec == OrderInit /\ [][Next]_vars


\* every directory Step 2 creates
StepTwoDirs ==
    specsDirs \o rootDirs \o configDirs \o componentDirs("contract") \o componentDirs("server")
    \o componentDirs("webapp") \o componentDirs("helm") \o componentDirs("testing")
    \o componentDirs("cicd") \o componentDirs("database")

\* every file Step 3 writes
StepThreeFiles ==
    filesSet(AllCopies,
             <<Write(archOverview, archContent)>> \o contractGitignores \o cicdWrites)

\* Step 4 has read, merged and written the manifest
MergeBegun == pc \in {"summary", "returned"} \/ Succeeded

\* C22 as stated: all directory creation is complete before any file is
\* written, and all file writes are complete before the script-graph merge.
C22_DirectoriesBeforeAnyFile ==
    /\ written # {} => Range(StepTwoDirs) \subseteq target.dirs
    /\ MergeBegun => StepThreeFiles \subseteq written

\* C22, amended: the directories of Step 2 are all created before the first
\* template file of Step 3 is written, and every file of Step 3 is written
\* before the script-graph merge of Step 4; the files written earlier
\* (.gitignore, the .gitkeep files, .claudeignore) go into directories that
\* exist by then.
C22_StepsSequenced ==
    LET stepThree == StepThreeFiles
    IN  /\ written \cap stepThree # {} => Range(StepTwoDirs) \subseteq target.dirs
        /\ MergeBegun => stepThree \subseteq written
        /\ \A file \in written \ stepThree : dirname(file) \in target.dirs

C22_Witness ==
    /\ pc = "specFiles"
    /\ written \cap StepThreeFiles # {}
    /\ HasType("database")
    /\ HasType("server")

\* the template files of the component bundles, and those of one component
BundleFiles ==
    filesSet(contractCopies \o serverCopies \o webappCopies \o databaseCopies,
             contractGitignores)

FilesUnder(files, c) == {file \in files : IsPrefix(componentDir(c), file)}

TemplateFilesOf(c) == FilesUnder(BundleFiles, c)

\* the template files of each declared component, by position
TemplateFilesByComponent ==
    LET bundle == BundleFiles
    IN  [i \in DOMAIN components |-> FilesUnder(bundle, components[i])]

\* C23 as stated: template bundles are copied component by component in the
\* declared order, and the architecture overview is written after all of them.
C23_DeclaredOrder ==
    /\ \A i, j \in DOMAIN components :
          (i < j /\ TemplateFilesOf(components[j]) \cap written # {}) =>
              TemplateFilesOf(components[i]) \subseteq written
    /\ archOverview \in written => filesSet(AllCopies, contractGitignores) \subseteq written

\* the position of a component type in Step 3
BundleRank(type) ==
    CASE type = "contract" -> 1
      [] type = "server" -> 2
      [] type = "webapp" -> 3
      [] type = "database" -> 4
      [] OTHER -> 0

\* C23, amended: template bundles are copied type by type, in the order
\* contract, server, webapp, database, whatever the declared order; the
\* architecture overview is written after the project and spec files and
\* before the config files and every component bundle.
C23_TypeOrder ==
    LET own == TemplateFilesByComponent
    IN  /\ \A i, j \in DOMAIN components :
              (BundleRank(components[i].type) < BundleRank(components[j].type)
               /\ own[j] \cap written # {}) =>
                  own[i] \subseteq written
        /\ archOverview \in written =>
              filesSet(projectCopies \o specCopies, <<>>) \subseteq written
        /\ archOverview \notin written =>
              written \cap (filesSet(configCopies, <<>>) \cup BundleFiles) = {}

\* a webapp declared before a contract, the contract's bundle copied first
C23_Witness ==
    /\ Len(components) = 2
    /\ components[1].type = "webapp"
    /\ components[2].type = "contract"
    /\ TemplateFilesOf(components[2]) # {}
    /\ TemplateFilesOf(components[2]) \subseteq written
    /\ TemplateFilesOf(components[1]) # {}
    /\ TemplateFilesOf(components[1]) \cap written = {}

-----------------------------------------------------------------------------
(* Concurrent writes and parent directories (PopulatorSpec) *)

\* no path occurs twice in a list of paths
Distinct(list) == \A i, j \in DOMAIN list : i # j => list[i] # list[j]

\* C24: within each Promise.all fan-out no two operations write the same path:
\* the stubs of different entities issued together go to distinct files, and so
\* do the stubs of different workflows, for every list of entities and
\* workflows.
C24_FanOutPathsDistinct ==
    /\ (populator.pc \in {"useCases", "glossary", "snapshot", "summary"}
        /\ Distinct(populator.config.domain_entities)) =>
          Distinct(fileNames(definitionsDir, populator.config.domain_entities))
    /\ (populator.pc \in {"glossary", "snapshot", "summary"}
        /\ Distinct(populator.config.core_workflows)) =>
          Distinct(fileNames(useCasesDir, populator.config.core_workflows))

\* the first run of the populator, in a target directory with no structure
OnEmptyTarget == populator.run = 1 /\ populator.before = NoTree

\* C25: every write happens after the run has created the parent directory, so
\* in a target directory with no pre-existing structure no write fails for a
\* missing parent directory, the snapshot write of a run with empty entity and
\* workflow lists included.
C25_ParentDirectoryCreated ==
    (populator.pc = "exit" /\ OnEmptyTarget
     /\ populatorMissingFields(populator.config) = <<>>) =>
        /\ populator.exitCode = 0
        /\ populator.tree.snapshot.exists

\* the component types of the registry, and names that put the derivation
\* to the test: type names, hyphenated names, the empty name
RegistryTypes == {"contract", "server", "webapp", "database", "helm", "testing", "cicd"}

TrickyNames == RegistryTypes \cup {"api", "server-api", "-api", "server-", "", "deploy"}

\* the directory names of all (type, name) pairs: as many as there are pairs
\* exactly when the derivation is injective on them
PoolDirNames == {componentDirName(Component(type, name)) : type \in RegistryTypes, name \in TrickyNames}

SamePair(c, d) == c.type = d.type /\ c.name = d.name

\* C30: for registry types the directory name is injective on (type, name):
\* components with different (type, name) pairs get different components/
\* directories, so neither their directories nor their template copies overlap.
C30_DirNameInjective ==
    /\ Cardinality(PoolDirNames) = Cardinality(RegistryTypes) * Cardinality(TrickyNames)
    /\ LET own == TemplateFilesByComponent
           dir == [i \in DOMAIN components |-> componentDir(components[i])]
       IN  \A i, j \in DOMAIN components :
              ~SamePair(components[i], components[j]) =>
                  /\ dir[i] # dir[j]
                  /\ own[i] \cap own[j] = {}
                  /\ \A file \in own[i] \cap written : ~IsPrefix(dir[j], file)

\* two servers with different names, each with its bundle in its own directory
C30_Witness ==
    /\ Succeeded
    /\ Len(components) = 2
    /\ components[1].type = components[2].type
    /\ components[1].name # components[2].name
    /\ TemplateFilesOf(components[1]) # {}
    /\ TemplateFilesOf(components[2]) # {}
    /\ TemplateFilesOf(components[1]) \cup TemplateFilesOf(components[2]) \subseteq written

-----------------------------------------------------------------------------
(* Failure of a filesystem operation (FaultSpec) *)

\* every directory and file of tree t is in tree u, the files unchanged
Kept(t, u) ==
    /\ t.dirs \subseteq u.dirs
    /\ \A file \in DOMAIN t.files : file \in DOMAIN u.files /\ u.files[file] = t.files[file]

\* C26: when a filesystem operation of a scaffolder run fails, the error reaches
\* main: the process exits with code 1 and the error message on standard error,
\* nothing written before the failure is removed, and afterwards no step of a
\* later phase runs and nothing is retried.
C26_FailFastNoRollback ==
    [][/\ (pc \in RunningSteps /\ pc' = "exit") =>
             /\ exitCode' = 1
             /\ Len(stderr') = Len(stderr) + 1
             /\ stderr'[Len(stderr')][1] \in {"Error: EACCES", "Error: ENOENT",
                                              "Error: ENOENT: no such file or directory, open"}
             /\ Kept(target, target')
             /\ written \subseteq written'
             /\ result' = NoResult
       /\ pc = "exit" => (pc' = "exit" /\ target' = target /\ exitCode' = exitCode)]_vars

\* a run that failed after Step 3 had begun, its files still there
C26_Witness ==
    /\ pc = "exit"
    /\ exitCode = 1
    /\ stderr = <<<<"Error: EACCES">>>>
    /\ archOverview \in DOMAIN target.files
    /\ Range(StepTwoDirs) \subseteq target.dirs
    /\ ~(StepThreeFiles \subseteq written)

\* C27: after a populator run every listed entity has its stub
\* specs/domain/definitions/{slug}.md holding the skeleton generated for that
\* entity, and a second run with the same entity list leaves every stub with
\* identical content.
C27_EntityStubs ==
    PopulatorSucceeded =>
        \A entity \in Range(populator.config.domain_entities) :
            /\ slugify(entity) \in DOMAIN populator.tree.definitions
            /\ populator.tree.definitions[slugify(entity)] =
                  entityDefinition(entity, populator.config.primary_domain)
            /\ populator.run > 1 =>
                  /\ slugify(entity) \in DOMAIN populator.before.definitions
                  /\ populator.tree.definitions[slugify(entity)] =
                        populator.before.definitions[slugify(entity)]

-----------------------------------------------------------------------------
(* Properties of the spec scripts (ValidateSpecSpec, IndexSpec) *)

\* the run was given exactly one argument, a positional one
SinglePositional ==
    Len(specTools.argv) = 1 /\ ~startsWith(specTools.argv[1], <<"-">>)

ValidateDone == specTools.pc = "exit" /\ specTools.program = "validate-spec"

\* C21: validate-spec given a single positional argument validates that file:
\* exit 0 and the file reported valid when validateSpec returns no errors, exit 1
\* with the errors listed otherwise; the usage message is printed only when
\* neither a path nor --all is given.
C21_SinglePathValidated ==
    (ValidateDone /\ SinglePositional) =>
        LET path == specTools.argv[1]
            errors == validateSpec(specTools.fs, path)
        IN  /\ specTools.stdout # UsageLines
            /\ errors = <<>> =>
                  specTools.exitCode = 0 /\ specTools.stdout = <<ValidLine(path)>>
            /\ errors # <<>> =>
                  /\ specTools.exitCode = 1
                  /\ \A i \in DOMAIN errors :
                        \E j \in DOMAIN specTools.stdout :
                            specTools.stdout[j] = <<"  - ", errors[i].message>>

\* the spec files the index run found, before INDEX.md was written
FoundSpecs == findSpecFiles(specTools.fs, DefaultSpecsDir)

IndexDone ==
    specTools.pc = "exit" /\ specTools.program = "generate-index" /\ specTools.exitCode = 0

\* the table rows of INDEX.md that link a path
RowsListing(path) ==
    {i \in DOMAIN specTools.index :
        Len(specTools.index[i]) = 15 /\ specTools.index[i][6] = path}

\* every spec file found carries a status validate-spec accepts
AllStatusesValid ==
    \A i \in DOMAIN FoundSpecs :
        /\ FoundSpecs[i].file.parsed
        /\ fmField(FoundSpecs[i].file.fm, "status") \in Range(VALID_STATUSES)

\* C29: in the INDEX.md generate-index produces, every spec file found is listed
\* in exactly one of the Active, Deprecated and Archived sections, and the Total
\* equals Active + Deprecated + Archived, whenever every status is one that
\* validate-spec accepts (active, deprecated, superseded, archived).
C29_TotalIsSumOfSections ==
    (IndexDone /\ AllStatusesValid) =>
        /\ \A i \in DOMAIN FoundSpecs :
              Cardinality(RowsListing(FoundSpecs[i].relativePath)) = 1
        /\ LET line == specTools.index[5]
           IN  line[2] = line[4] + line[6] + line[8]
====
